---- MODULE Spec2Model ----
(***************************************************************************)
(* Atomic-GPT-explorer: a character-level transformer with its own scalar  *)
(* reverse-mode autodiff engine, served over four HTTP operations.         *)
(*                                                                         *)
(* The module holds one state machine per concern, over one set of         *)
(* variables:                                                              *)
(*   SpecGrad   the autodiff graph (Value, Add, Mul, Backward)             *)
(*   SpecTrain  one client calling train and generate on one model, the    *)
(*              loops of TrainBatchedSteps and GenerateSample step by step *)
(*   SpecGen    the same client's generate calls over every option value   *)
(*   Spec       the server: concurrent requests, s.mu and each Model's mu, *)
(*              a call's computation taken as one step under the lock      *)
(*                                                                         *)
(* float64 is modelled in integer arithmetic.  A gradient is a fraction    *)
(* (numerator n over denominator d), so that scaling by 1/batchSize is     *)
(* exact.  Adam's moments are fixed-point numbers.  What the transformer   *)
(* computes from its weights (logits, per-example gradients, the size of   *)
(* an Adam step) is not computed: logits and per-example gradients are     *)
(* drawn from small sets, and a parameter moves by LearningRate against    *)
(* the sign of its first moment.                                           *)
(***************************************************************************)
EXTENDS Integers, Sequences, FiniteSets, TLC

VARIABLES
    heap,        \* autograd: every Value allocated so far, addressed by index
    opOf,        \* autograd: per node, the operation that made it
                 \*   ("leaf", "add", "mul"); the Value struct does not keep it
    callRoots,   \* autograd: the roots of the Backward calls since the last
                 \*   zeroing, in call order
    lastTopo,    \* autograd: the traversal order the latest call built
    zeroAtCall,  \* autograd: whether every Grad was 0 when that call started
    alone,       \* autograd: per node, the sum over the Backward calls since
                 \*   the last zeroing of what each call alone would have added
    fresh,       \* autograd: whether every call since the last zeroing met
                 \*   FreshGraph at its start
    nBackward,   \* autograd: number of Backward calls made
    model,       \* client: the Model the calls operate on
    docs,        \* client: the documents installed with it
    tr,          \* client: locals of the train call in progress
    gen,         \* client: locals of the generate call in progress
    reply,       \* client: what the latest call returned
    nUpdates,    \* client: number of Update calls applied to model
    srv,         \* server: the Server struct (mu, model, docs)
    objs,        \* server: every Model built so far, addressed by index, with
                 \*   its mutex and the number of Update calls applied to it
    reqs,        \* server: per request, its handler's position and locals
    discarded,   \* server: the models that were replaced as the server's model
    probe        \* direct calls: the latest call of a function, its arguments
                 \*   and what it returned

gradVars == <<heap, opOf, callRoots, lastTopo, zeroAtCall, alone, fresh, nBackward>>
coreVars == <<model, docs, tr, gen, reply, nUpdates>>

srvVars == <<srv, objs, reqs, discarded>>

vars == <<gradVars, coreVars, srvVars, probe>>
\* What the client's calls, the engine's operations and the server's
\* handlers leave alone.
outsideClient == <<gradVars, srvVars, probe>>
outsideGrad == <<coreVars, srvVars, probe>>
outsideServer == <<gradVars, coreVars, probe>>
outsideProbe == <<gradVars, coreVars, srvVars>>

(***************************************************************************)
(* Bounds                                                                  *)
(***************************************************************************)
MaxNodes == 3
MaxBackward == 2
DataVals == {-1, 2}

(***************************************************************************)
(* Helpers                                                                 *)
(***************************************************************************)
RECURSIVE SumSeq(_)
SumSeq(s) == IF s = <<>> THEN 0 ELSE Head(s) + SumSeq(Tail(s))

SeqToSet(s) == {s[i] : i \in 1..Len(s)}

(***************************************************************************)
(* Autograd engine                                                         *)
(***************************************************************************)

\* NewValue creates a leaf node: no children, Grad 0.
NewValue(data) ==
    [Data |-> data, Grad |-> 0, Children |-> <<>>, LocalGrads |-> <<>>]

\* z = x + y; dz/dx = 1, dz/dy = 1.  v and other are indexes into h.
Add(h, v, other) ==
    [Data |-> h[v].Data + h[other].Data, Grad |-> 0,
     Children |-> <<v, other>>, LocalGrads |-> <<1, 1>>]

\* z = x * y; dz/dx = y, dz/dy = x.
Mul(h, v, other) ==
    [Data |-> h[v].Data * h[other].Data, Grad |-> 0,
     Children |-> <<v, other>>, LocalGrads |-> <<h[other].Data, h[v].Data>>]

\* buildTopo: depth-first over Children, memoised by identity in visited;
\* a node is appended after all of its children.
RECURSIVE buildTopo(_, _, _)
RECURSIVE buildTopoChildren(_, _, _, _)
buildTopoChildren(h, node, j, st) ==
    IF j > Len(h[node].Children) THEN st
    ELSE buildTopoChildren(h, node, j + 1,
                           buildTopo(h, h[node].Children[j], st))

buildTopo(h, node, st) ==
    IF node \in st.visited THEN st
    ELSE LET s1 == [st EXCEPT !.visited = @ \cup {node}]
             s2 == buildTopoChildren(h, node, 1, s1)
         IN  [s2 EXCEPT !.topo = Append(@, node)]

TopoOf(h, v) == buildTopo(h, v, [topo |-> <<>>, visited |-> {}]).topo

\* A faulty AccumOne: the gradient is assigned, not accumulated.
AccumOneAssign(h, curr, j) ==
    [h EXCEPT ![h[curr].Children[j]].Grad = h[curr].LocalGrads[j] * h[curr].Grad]

\* The inner loop of Backward: child.Grad += curr.LocalGrads[j] * curr.Grad.
AccumOne(h, curr, j) ==
    [h EXCEPT ![h[curr].Children[j]].Grad =
                    @ + h[curr].LocalGrads[j] * h[curr].Grad]

RECURSIVE AccumChildren(_, _, _)
AccumChildren(h, curr, j) ==
    IF j > Len(h[curr].Children) THEN h
    ELSE AccumChildren(AccumOne(h, curr, j), curr, j + 1)

\* The outer loop of Backward: i from len(topo)-1 down to 0.
RECURSIVE AccumTopo(_, _, _)
AccumTopo(h, topo, i) ==
    IF i < 1 THEN h
    ELSE AccumTopo(AccumChildren(h, topo[i], 1), topo, i - 1)

\* A faulty Backward: every grad is cleared before the pass.
BackwardClearing(h, v) ==
    LET topo == TopoOf(h, v)
        z    == [n \in 1..Len(h) |-> [h[n] EXCEPT !.Grad = 0]]
    IN  AccumTopo([z EXCEPT ![v].Grad = 1], topo, Len(topo))

\* Backward: build the order, seed v.Grad = 1, accumulate in reverse order.
Backward(h, v) ==
    LET topo == TopoOf(h, v)
    IN  AccumTopo([h EXCEPT ![v].Grad = 1], topo, Len(topo))

(***************************************************************************)
(* Autograd: reference notions the claims are stated with                  *)
(***************************************************************************)
IsLeaf(h, n) == h[n].Children = <<>>

\* Nodes reachable from v over Children edges.
RECURSIVE Reach(_, _)
Reach(h, v) ==
    {v} \cup UNION {Reach(h, h[v].Children[j]) : j \in 1..Len(h[v].Children)}

\* d root / d n by the chain rule: the sum over all paths from root to n of
\* the product of the local gradients along the path.
RECURSIVE PathGrad(_, _, _)
PathGrad(h, root, n) ==
    IF root = n THEN 1
    ELSE SumSeq([j \in 1..Len(h[root].Children) |->
                    h[root].LocalGrads[j] * PathGrad(h, h[root].Children[j], n)])

\* Number of distinct paths from root to n.
RECURSIVE PathCount(_, _, _)
PathCount(h, root, n) ==
    IF root = n THEN 1
    ELSE SumSeq([j \in 1..Len(h[root].Children) |->
                    PathCount(h, h[root].Children[j], n)])

\* d n / d leaf from the operations themselves (forward mode): the sum rule
\* for add, the product rule for mul.
RECURSIVE TrueDeriv(_, _, _, _)
TrueDeriv(h, ops, n, leaf) ==
    IF n = leaf THEN 1
    ELSE IF ops[n] = "leaf" THEN 0
    ELSE LET a == h[n].Children[1]
             b == h[n].Children[2]
         IN  IF ops[n] = "add"
             THEN TrueDeriv(h, ops, a, leaf) + TrueDeriv(h, ops, b, leaf)
             ELSE TrueDeriv(h, ops, a, leaf) * h[b].Data
                  + h[a].Data * TrueDeriv(h, ops, b, leaf)

ZeroedAll(h) == [n \in 1..Len(h) |-> [h[n] EXCEPT !.Grad = 0]]

\* What Backward(v) alone, started from zeroed grads, adds to node n.
AloneGrad(h, v, n) == Backward(ZeroedAll(h), v)[n].Grad

\* At the start of Backward(v): no operation node below the root carries a
\* grad from an earlier call, and the root is not a leaf that does.
FreshGraph(h, v) ==
    /\ \A n \in Reach(h, v) \ {v} : IsLeaf(h, n) \/ h[n].Grad = 0
    /\ ~IsLeaf(h, v) \/ h[v].Grad = 0

(***************************************************************************)
(* Autograd: actions                                                       *)
(***************************************************************************)
GradInit ==
    /\ heap = <<>>
    /\ opOf = <<>>
    /\ callRoots = <<>>
    /\ lastTopo = <<>>
    /\ zeroAtCall = FALSE
    /\ alone = <<>>
    /\ fresh = TRUE
    /\ nBackward = 0

GNewValue ==
    /\ Len(heap) < MaxNodes
    /\ \E d \in DataVals : heap' = Append(heap, NewValue(d))
    /\ opOf' = Append(opOf, "leaf")
    /\ alone' = Append(alone, 0)
    /\ UNCHANGED <<outsideGrad, callRoots, lastTopo, zeroAtCall, fresh, nBackward>>

GAdd ==
    /\ Len(heap) < MaxNodes
    /\ \E v, other \in 1..Len(heap) : heap' = Append(heap, Add(heap, v, other))
    /\ opOf' = Append(opOf, "add")
    /\ alone' = Append(alone, 0)
    /\ UNCHANGED <<outsideGrad, callRoots, lastTopo, zeroAtCall, fresh, nBackward>>

GMul ==
    /\ Len(heap) < MaxNodes
    /\ \E v, other \in 1..Len(heap) : heap' = Append(heap, Mul(heap, v, other))
    /\ opOf' = Append(opOf, "mul")
    /\ alone' = Append(alone, 0)
    /\ UNCHANGED <<outsideGrad, callRoots, lastTopo, zeroAtCall, fresh, nBackward>>

GBackward ==
    /\ nBackward < MaxBackward
    /\ \E v \in 1..Len(heap) :
          /\ heap' = Backward(heap, v)
          /\ callRoots' = Append(callRoots, v)
          /\ lastTopo' = TopoOf(heap, v)
          /\ zeroAtCall' = (\A n \in 1..Len(heap) : heap[n].Grad = 0)
          /\ alone' = [n \in 1..Len(heap) |-> alone[n] + AloneGrad(heap, v, n)]
          /\ fresh' = (fresh /\ FreshGraph(heap, v))
    /\ nBackward' = nBackward + 1
    /\ UNCHANGED <<outsideGrad, opOf>>

\* The caller's zeroing pass: every leaf's Grad = 0 (the trainer zeroes the
\* parameters, which are leaves; operation nodes are never zeroed).
GZeroGrad ==
    /\ nBackward > 0
    /\ \E n \in 1..Len(heap) : IsLeaf(heap, n) /\ heap[n].Grad # 0
    /\ heap' = [n \in 1..Len(heap) |->
                  IF IsLeaf(heap, n) THEN [heap[n] EXCEPT !.Grad = 0] ELSE heap[n]]
    /\ alone' = [n \in 1..Len(heap) |-> 0]
    /\ fresh' = TRUE
    /\ callRoots' = <<>>
    /\ lastTopo' = <<>>
    /\ UNCHANGED <<outsideGrad, opOf, zeroAtCall, nBackward>>


(***************************************************************************)
(* Model: vocabulary, parameters, optimizer                                *)
(***************************************************************************)
RuneCode(c) == IF c = "a" THEN 97 ELSE 98

\* The gradient 0 (p.Grad = 0).
ZeroGrad == [n |-> 0, d |-> 1]

\* p.Grad += c, for a whole number c.
GradAdd(g, c) == [n |-> g.n + c * g.d, d |-> g.d]

\* p.Grad *= 1.0 / float64(batchSize).
GradScale(g, batchSize) == [n |-> g.n, d |-> g.d * batchSize]

\* Fixed point: the whole number standing for the float 1.0.
FixedOne == 10 * 100
ToFixed(g) == (FixedOne * g.n) \div g.d
Sgn(x) == IF x > 0 THEN 1 ELSE IF x < 0 THEN -1 ELSE 0

\* beta1, beta2 of Update, in hundredths.
Beta1 == 85
Beta2 == 99

\* A faulty SortRunes: the runes in descending order.
RECURSIVE SortRunesDescending(_)
SortRunesDescending(S) ==
    IF S = {} THEN <<>>
    ELSE LET m == CHOOSE x \in S : \A y \in S : RuneCode(x) >= RuneCode(y)
         IN  <<m>> \o SortRunesDescending(S \ {m})

\* sort.Strings over the distinct runes of the documents.
RECURSIVE SortRunes(_)
SortRunes(S) ==
    IF S = {} THEN <<>>
    ELSE LET m == CHOOSE x \in S : \A y \in S : RuneCode(x) <= RuneCode(y)
         IN  <<m>> \o SortRunes(S \ {m})

\* charSet: every rune of every document.
CharSet(ds) == UNION {SeqToSet(ds[i]) : i \in 1..Len(ds)}

\* rand.NormFloat64() * 0.02 for the k-th parameter created: one of three
\* values, fixed by the seed of the process-wide generator.
InitData(seed, k) == ((seed + k) % 3) - 1

\* A faulty createMatrix: the entries are stored in the matrix but not
\* appended to Params.
createMatrixUnregistered(params, rows, cols, seed) ==
    LET base == Len(params)
    IN  [mat    |-> [i \in 1..rows |-> [j \in 1..cols |-> base + (i - 1) * cols + j]],
         params |-> params]

\* createMatrix: rows x cols fresh leaves, each appended to Params and stored
\* in the matrix (as its index in Params).
createMatrix(params, rows, cols, seed) ==
    LET base == Len(params)
    IN  [mat    |-> [i \in 1..rows |-> [j \in 1..cols |-> base + (i - 1) * cols + j]],
         params |-> params \o [k \in 1..(rows * cols) |->
                                  [Data |-> InitData(seed, base + k), Grad |-> ZeroGrad]]]

\* The matrices NewModel creates, in creation order.
RECURSIVE LayerShapes(_, _)
LayerShapes(config, li) ==
    IF li >= config.NLayer THEN <<>>
    ELSE << [name |-> "attn_wq", layer |-> li, rows |-> config.NEmpd, cols |-> config.NEmpd],
            [name |-> "attn_wk", layer |-> li, rows |-> config.NEmpd, cols |-> config.NEmpd],
            [name |-> "attn_wv", layer |-> li, rows |-> config.NEmpd, cols |-> config.NEmpd],
            [name |-> "attn_wo", layer |-> li, rows |-> config.NEmpd, cols |-> config.NEmpd],
            [name |-> "mlp_fc1", layer |-> li, rows |-> 4 * config.NEmpd, cols |-> config.NEmpd],
            [name |-> "mlp_fc2", layer |-> li, rows |-> config.NEmpd, cols |-> 4 * config.NEmpd] >>
         \o LayerShapes(config, li + 1)

MatrixShapes(config, vocabSize) ==
    << [name |-> "wte", layer |-> -1, rows |-> vocabSize, cols |-> config.NEmpd],
       [name |-> "wpe", layer |-> -1, rows |-> config.BlockSize, cols |-> config.NEmpd],
       [name |-> "lm_head", layer |-> -1, rows |-> vocabSize, cols |-> config.NEmpd] >>
    \o LayerShapes(config, 0)

\* The createMatrix calls of NewModel, one after the other.
RECURSIVE BuildState(_, _, _, _)
BuildState(shapes, k, acc, seed) ==
    IF k > Len(shapes) THEN acc
    ELSE LET r == createMatrix(acc.params, shapes[k].rows, shapes[k].cols, seed)
         IN  BuildState(shapes, k + 1,
                        [state  |-> Append(acc.state,
                                           [name |-> shapes[k].name,
                                            layer |-> shapes[k].layer,
                                            mat |-> r.mat]),
                         params |-> r.params],
                        seed)

\* A faulty NewModel: the step counter starts at 1.
FreshSteps1 == 0 + 1

\* The step counter of a model NewModel returns (the zero value).
FreshSteps == 0

NewModel(config, ds, seed) ==
    LET chars     == SortRunes(CharSet(ds))
        vocabSize == Len(chars) + 1
        built     == BuildState(MatrixShapes(config, vocabSize), 1,
                                [state |-> <<>>, params |-> <<>>], seed)
    IN  [Config    |-> config,
         VocabSize |-> vocabSize,
         Chars     |-> chars,
         BOS       |-> Len(chars),
         Params    |-> built.params,
         State     |-> built.state,
         AdamM     |-> [i \in 1..Len(built.params) |-> 0],
         AdamV     |-> [i \in 1..Len(built.params) |-> 0],
         Steps     |-> FreshSteps]

\* Adam's moments after one more gradient g (fixed point).
NextAdamM(mi, g) == (Beta1 * mi + (100 - Beta1) * ToFixed(g)) \div 100
NextAdamV(vi, g) ==
    (Beta2 * vi + (100 - Beta2) * ((ToFixed(g) * ToFixed(g)) \div FixedOne)) \div 100

\* A faulty NextSteps: the counter is not advanced.
NextStepsStuck(steps) == steps

\* m.Steps++
NextSteps(steps) == steps + 1

\* A faulty Update: the gradients are left as they are.
UpdateKeepingGrad(m) ==
    [m EXCEPT
       !.Steps  = NextSteps(@),
       !.AdamM  = [i \in 1..Len(m.Params) |-> NextAdamM(m.AdamM[i], m.Params[i].Grad)],
       !.AdamV  = [i \in 1..Len(m.Params) |-> NextAdamV(m.AdamV[i], m.Params[i].Grad)],
       !.Params = [i \in 1..Len(m.Params) |->
                     [Data |-> m.Params[i].Data
                               - m.Config.LearningRate
                                 * Sgn(NextAdamM(m.AdamM[i], m.Params[i].Grad)),
                      Grad |-> m.Params[i].Grad]]]

\* Update: one Adam step over all parameters; every Grad is 0 afterwards.
\* mHat has the sign of the first moment, so the parameter moves against it.
Update(m) ==
    [m EXCEPT
       !.Steps  = NextSteps(@),
       !.AdamM  = [i \in 1..Len(m.Params) |-> NextAdamM(m.AdamM[i], m.Params[i].Grad)],
       !.AdamV  = [i \in 1..Len(m.Params) |-> NextAdamV(m.AdamV[i], m.Params[i].Grad)],
       !.Params = [i \in 1..Len(m.Params) |->
                     [Data |-> m.Params[i].Data
                               - m.Config.LearningRate
                                 * Sgn(NextAdamM(m.AdamM[i], m.Params[i].Grad)),
                      Grad |-> ZeroGrad]]]

(***************************************************************************)
(* Trainer                                                                 *)
(***************************************************************************)
EndLabel == "<END>"

\* tokenLabel: token ids count from 0; the control token shows as <END>.
tokenLabel(tokenID, bos, chars) ==
    IF tokenID = bos THEN EndLabel ELSE chars[tokenID + 1]

\* A faulty FirstIndex: the index counted from 1.
FirstIndexFromOne(c, chars) ==
    IF \E i \in 1..Len(chars) : chars[i] = c
    THEN << CHOOSE i \in 1..Len(chars) :
               chars[i] = c /\ \A k \in 1..(i - 1) : chars[k] # c >>
    ELSE <<>>

\* The index of the first entry of chars equal to c (from 0), as a
\* one-element sequence; empty when there is none (the rune is skipped).
FirstIndex(c, chars) ==
    IF \E i \in 1..Len(chars) : chars[i] = c
    THEN << (CHOOSE i \in 1..Len(chars) :
                chars[i] = c /\ \A k \in 1..(i - 1) : chars[k] # c) - 1 >>
    ELSE <<>>

RECURSIVE EncodeRunes(_, _)
EncodeRunes(doc, chars) ==
    IF doc = <<>> THEN <<>>
    ELSE FirstIndex(Head(doc), chars) \o EncodeRunes(Tail(doc), chars)

\* encodeDoc: the control token, the index of every rune, the control token.
encodeDoc(doc, chars, bos) == <<bos>> \o EncodeRunes(doc, chars) \o <<bos>>

\* Forward indexes wte[tokenID] and wpe[posID] and divides by NHead.
ForwardOK(m, tokenID, posID) ==
    /\ tokenID \in 0..(m.VocabSize - 1)
    /\ posID \in 0..(m.Config.BlockSize - 1)
    /\ m.Config.NHead # 0

\* A faulty ForwardCache: every call starts the layer's cache anew.
ForwardCacheReset(m, posID, cache) ==
    [li \in 1..m.Config.NLayer |-> <<posID>>]

\* Forward appends this position's key and value to every layer's cache.
\* An entry is written as the position it was computed for.
ForwardCache(m, posID, cache) ==
    [li \in 1..m.Config.NLayer |-> Append(cache[li], posID)]

\* keys := make([][][]*Value, NLayer): one empty cache per layer.
EmptyCache(m) == [li \in 1..m.Config.NLayer |-> <<>>]

\* The entries attention reads in each layer: t runs over 0..len(cache[li])-1
\* of the cache as it is after the append.
AttentionReads(cache) ==
    [li \in DOMAIN cache |-> {cache[li][t + 1] : t \in 0..(Len(cache[li]) - 1)}]

\* One Forward call seen from its caller: both caches after the call and the
\* entries its attention read.
Forward(m, posID, keys, values) ==
    LET k == ForwardCache(m, posID, keys)
        v == ForwardCache(m, posID, values)
    IN  [keys |-> k, values |-> v,
         read |-> [keys |-> AttentionReads(k), values |-> AttentionReads(v)]]

NoForward == [keys |-> <<>>, values |-> <<>>, read |-> [keys |-> <<>>, values |-> <<>>]]

\* trainOneExample's loop: Forward for pos = 0..n-1 on caches created empty
\* before the loop; the result of every call, in order.
RECURSIVE ForwardRuns(_, _)
ForwardRuns(m, n) ==
    IF n <= 0 THEN <<>>
    ELSE LET before == ForwardRuns(m, n - 1)
             keys   == IF n = 1 THEN EmptyCache(m) ELSE before[n - 1].keys
             values == IF n = 1 THEN EmptyCache(m) ELSE before[n - 1].values
         IN  Append(before, Forward(m, n - 1, keys, values))

\* What Backward adds to the i-th parameter's Grad for an example whose
\* averaged loss has the drawn gradient c.
ExampleGrad(c, i) == c * (1 + (i % 2))

GradVals == {-1, 1}

EmptyResp == [Step |-> 0, ContextChar |-> "", TargetChar |-> ""]
ErrEmptySeq == "training sequence is empty"

\* A faulty MinOf: the first value, never truncated.
MinOfFirst(a, b) == a

\* n := len(tokens) - 1; if n > model.Config.BlockSize { n = BlockSize }
MinOf(a, b) == IF a < b THEN a ELSE b

\* trainOneExample on document number pick: encode, n teacher-forced forward
\* steps, one Backward on the averaged loss.  Parameters are not updated.
trainOneExample(m, ds, pick, c) ==
    LET tokens == encodeDoc(ds[pick], m.Chars, m.BOS)
        n      == MinOf(Len(tokens) - 1, m.Config.BlockSize)
    IN  IF n <= 0
        THEN [err |-> ErrEmptySeq, model |-> m, resp |-> EmptyResp, nForward |-> 0,
              forwards |-> <<>>]
        ELSE IF \E pos \in 0..(n - 1) : ~ForwardOK(m, tokens[pos + 1], pos)
        THEN [err |-> "panic", model |-> m, resp |-> EmptyResp, nForward |-> 0,
              forwards |-> <<>>]
        ELSE [err      |-> "",
              model    |-> [m EXCEPT !.Params =
                              [i \in 1..Len(m.Params) |->
                                 [m.Params[i] EXCEPT
                                    !.Grad = GradAdd(@, ExampleGrad(c, i))]]],
              resp     |-> [Step        |-> m.Steps,
                            ContextChar |-> tokenLabel(tokens[n], m.BOS, m.Chars),
                            TargetChar  |-> tokenLabel(tokens[n + 1], m.BOS, m.Chars)],
              nForward |-> n,
              forwards |-> ForwardRuns(m, n)]

\* for _, p := range model.Params { p.Grad = 0 }
ZeroGrads(m) ==
    [m EXCEPT !.Params = [i \in 1..Len(m.Params) |-> [m.Params[i] EXCEPT !.Grad = ZeroGrad]]]

\* for _, p := range model.Params { p.Grad *= scale }
ScaleGrads(m, batchSize) ==
    [m EXCEPT !.Params =
       [i \in 1..Len(m.Params) |-> [m.Params[i] EXCEPT !.Grad = GradScale(@, batchSize)]]]

\* The argument as the caller gave it.
KeepAsGiven(x) == x

\* if stepsPerCall < 1 { stepsPerCall = 1 }, and the same for batchSize.
AtLeastOne(x) == IF x < 1 THEN 1 ELSE x

\* handleTrain: steps_per_call and batch_size when the body gives none.
DefaultStepsPerCall == 2
DefaultBatchSize == 4
HandlerStepsPerCall(body) ==
    IF body.StepsPerCall <= 0 THEN DefaultStepsPerCall ELSE body.StepsPerCall
HandlerBatchSize(body) ==
    IF body.BatchSize <= 0 THEN DefaultBatchSize ELSE body.BatchSize

(***************************************************************************)
(* Sampler                                                                 *)
(***************************************************************************)
\* Temperature is kept in tenths: 7 is 0.7.
DefaultTemperature == 7
DefaultTopK == 5
DefaultMinLen == 3

\* handleGenerate / handleGenerateTrace: the options after the handler's
\* defaults.
HandlerOpts(o) ==
    [Temperature |-> IF o.Temperature <= 0 THEN DefaultTemperature ELSE o.Temperature,
     TopK        |-> IF o.TopK <= 0 THEN DefaultTopK ELSE o.TopK,
     MinLen      |-> IF o.MinLen <= 0 THEN DefaultMinLen ELSE o.MinLen]

\* samplingConfig: validated options.
samplingConfig(o, vocabSize) ==
    LET t  == IF o.Temperature <= 0 THEN DefaultTemperature ELSE o.Temperature
        k0 == IF o.TopK < 0 THEN 0 ELSE o.TopK
        k  == IF k0 > vocabSize THEN vocabSize ELSE k0
        l  == IF o.MinLen < 0 THEN 0 ELSE o.MinLen
    IN  [Temperature |-> t, TopK |-> k, MinLen |-> l]

RECURSIVE MaxSeq(_)
MaxSeq(x) ==
    IF Len(x) = 1 THEN x[1]
    ELSE LET r == MaxSeq(Tail(x)) IN IF x[1] > r THEN x[1] ELSE r

\* math.Exp(raw - maxLogit), for raw - maxLogit = d <= 0: 1 at 0, halved by
\* every unit below, 0 (underflow) from three units below on; in quarters.
ExpW(d) == IF d >= 0 THEN 4 ELSE IF d = -1 THEN 2 ELSE IF d = -2 THEN 1 ELSE 0

\* logits[i].Data / opts.Temperature.
RawLogits(logits, temperature) ==
    [i \in 1..Len(logits) |-> (logits[i] * 10) \div temperature]

\* A vector of probabilities is kept as whole weights w over one
\* denominator den: entry i is w[i] / den.

\* The orders sort.Slice can leave the indices in: probabilities descending,
\* ties in any order (the sort is not stable).
RECURSIVE OrdersOf(_, _)
OrdersOf(w, S) ==
    IF S = {} THEN {<<>>}
    ELSE UNION {{<<i>> \o rest : rest \in OrdersOf(w, S \ {i})} :
                   i \in {j \in S : \A k \in S : w[j] >= w[k]}}

SortedOrders(w) == OrdersOf(w, 1..Len(w))

\* A faulty TopKApplies: the filter is never applied.
TopKNever(o, n) == FALSE

\* if opts.TopK > 0 && opts.TopK < len(probs)
TopKApplies(o, n) == o.TopK > 0 /\ o.TopK < n

\* A faulty Suppress: the control token keeps its probability.
SuppressNothing(w, bosTokenID, suppressEnd) == w

\* if suppressEnd && bosTokenID in range { probs[bosTokenID] = 0 }
Suppress(w, bosTokenID, suppressEnd) ==
    IF suppressEnd /\ bosTokenID >= 0 /\ bosTokenID < Len(w)
    THEN [w EXCEPT ![bosTokenID + 1] = 0]
    ELSE w

\* A faulty UniformFallback: the control token is zeroed and the rest keeps
\* 1/n.
FallbackNotRescaled(n, bosTokenID, suppressEnd) ==
    [w |-> [i \in 1..n |-> IF suppressEnd /\ n > 1 /\ i = bosTokenID + 1 THEN 0 ELSE 1],
     den |-> n]

\* The fallback of toProbVector when no mass is left: uniform, and when the
\* control token is suppressed and is not the only token, uniform over the
\* others.
UniformFallback(n, bosTokenID, suppressEnd) ==
    IF suppressEnd /\ n > 1
    THEN [w |-> [i \in 1..n |-> IF i = bosTokenID + 1 THEN 0 ELSE 1], den |-> n - 1]
    ELSE [w |-> [i \in 1..n |-> 1], den |-> n]

\* toProbVector: temperature, softmax, top-k, suppression of the control
\* token, renormalisation or the uniform fallback.  ord is the order the
\* top-k sort left the indices in.
toProbVector(logits, o, bosTokenID, suppressEnd, ord) ==
    LET raw    == RawLogits(logits, o.Temperature)
        mx     == MaxSeq(raw)
        soft   == [i \in 1..Len(raw) |-> ExpW(raw[i] - mx)]
        kept   == IF TopKApplies(o, Len(soft))
                  THEN [i \in 1..Len(soft) |->
                          IF \E r \in 1..o.TopK : ord[r] = i THEN soft[i] ELSE 0]
                  ELSE soft
        masked == Suppress(kept, bosTokenID, suppressEnd)
    IN  [raw   |-> raw,
         probs |-> IF SumSeq(masked) > 0
                   THEN [w |-> masked, den |-> SumSeq(masked)]
                   ELSE UniformFallback(Len(masked), bosTokenID, suppressEnd)]

\* A faulty InInterval: the draw may equal the cumulative sum.
InIntervalInclusive(u, cumulative) == u <= cumulative

\* if u < cumulative
InInterval(u, cumulative) == u < cumulative

\* The walk of sampleFromProbVector from index idx (from 1) on.
RECURSIVE SampleWalk(_, _, _, _, _)
SampleWalk(w, u, idx, cumulative, fallbackTokenID) ==
    IF idx > Len(w)
    THEN [chosen |-> fallbackTokenID, chosenProb |-> 0,
          cumBefore |-> 0, cumAfter |-> cumulative]
    ELSE IF InInterval(u, cumulative + w[idx])
    THEN [chosen |-> idx - 1, chosenProb |-> w[idx],
          cumBefore |-> cumulative, cumAfter |-> cumulative + w[idx]]
    ELSE SampleWalk(w, u, idx + 1, cumulative + w[idx], fallbackTokenID)

\* sampleFromProbVector with the draw u (over the vector's denominator): the
\* first index whose cumulative sum exceeds u, else the fallback token.
sampleFromProbVector(pv, fallbackTokenID, u) ==
    SampleWalk(pv.w, u, 1, 0, fallbackTokenID)

\* The draws rand.Float64() can give, over the vector's denominator.  The
\* draw den stands for a draw of [0,1) that is not below the cumulative sum
\* float64 reaches: adding two or more non-zero entries can round below 1.
Draws(pv) ==
    0..(pv.den - 1)
    \cup (IF Cardinality({i \in 1..Len(pv.w) : pv.w[i] > 0}) >= 2 THEN {pv.den} ELSE {})

LogitVals == {0, 2}
LogitVecs(n) == [1..n -> LogitVals]

\* topKCandidates(rawLogits, probs, model.Chars, model.BOS, 5)
TraceCandidates == 5

\* topKCandidates: the first k indices in the order sort.Slice left them in
\* (probabilities descending, ties in any order), each with its token id,
\* logit and probability.  The label Char is tokenLabel of the token id.
topKCandidates(raw, pv, k, ord) ==
    [r \in 1..(IF Len(pv.w) > k THEN k ELSE Len(pv.w)) |->
        [TokenID |-> ord[r] - 1, Logit |-> raw[ord[r]], Prob |-> pv.w[ord[r]]]]

\* A faulty chosenRank: the rank counted from 0.
chosenRankFromZero(topK, newTokenID, nProbs) ==
    IF \E rank \in 1..Len(topK) : topK[rank].TokenID = newTokenID
    THEN (CHOOSE rank \in 1..Len(topK) :
             /\ topK[rank].TokenID = newTokenID
             /\ \A q \in 1..(rank - 1) : topK[q].TokenID # newTokenID) - 1
    ELSE nProbs

\* chosenRank := len(probs); for rank, cand := range topK { if cand.TokenID ==
\* newTokenID { chosenRank = rank + 1; break } }  (rank here counts from 1)
chosenRank(topK, newTokenID, nProbs) ==
    IF \E rank \in 1..Len(topK) : topK[rank].TokenID = newTokenID
    THEN CHOOSE rank \in 1..Len(topK) :
            /\ topK[rank].TokenID = newTokenID
            /\ \A q \in 1..(rank - 1) : topK[q].TokenID # newTokenID
    ELSE nProbs

StopLimit == "Reached block size limit"
StopEnd == "Model selected <END> token"

GenIdle ==
    [pc |-> "idle", trace |-> FALSE, opts |-> [Temperature |-> 0, TopK |-> 0, MinLen |-> 0],
     tokenID |-> 0, sample |-> <<>>, keys |-> <<>>, values |-> <<>>,
     read |-> NoForward.read, pos |-> 0,
     stopReason |-> "", sampled |-> <<>>, nForward |-> 0, gap |-> FALSE, steps |-> <<>>]

\* A faulty GenBegin: the first token fed is the vocabulary size, one past
\* the control token.
GenBeginPastVocab(m, o, trace) ==
    [pc |-> "loop", trace |-> trace, opts |-> samplingConfig(o, m.VocabSize),
     tokenID |-> m.VocabSize, sample |-> <<>>, keys |-> EmptyCache(m), values |-> EmptyCache(m),
     read |-> NoForward.read,
     pos |-> 0, stopReason |-> IF trace THEN StopLimit ELSE "",
     sampled |-> <<>>, nForward |-> 0, gap |-> FALSE, steps |-> <<>>]

\* GenerateSample / GenerateSampleWithTrace up to the loop.
GenBegin(m, o, trace) ==
    [pc |-> "loop", trace |-> trace, opts |-> samplingConfig(o, m.VocabSize),
     tokenID |-> m.BOS, sample |-> <<>>, keys |-> EmptyCache(m), values |-> EmptyCache(m),
     read |-> NoForward.read,
     pos |-> 0, stopReason |-> IF trace THEN StopLimit ELSE "",
     sampled |-> <<>>, nForward |-> 0, gap |-> FALSE, steps |-> <<>>]

\* A faulty LoopRuns: one iteration too many.
LoopRunsOneMore(pos, blockSize) == pos <= blockSize

\* for pos := 0; pos < model.Config.BlockSize; pos++
LoopRuns(pos, blockSize) == pos < blockSize

\* A faulty IsEnd: the loop also stops on the first ordinary token.
IsEndOrFirst(newTokenID, bos) == newTokenID = bos \/ newTokenID = 0

\* if newTokenID == model.BOS { break }
IsEnd(newTokenID, bos) == newTokenID = bos

\* One iteration of GenerateSample's loop: Forward, toProbVector, sample,
\* break on the control token, else append and go on.
GenerateSampleStep(m, g, logits, ord, u) ==
    LET suppressEnd == Len(g.sample) < g.opts.MinLen
        pv   == toProbVector(logits, g.opts, m.BOS, suppressEnd, ord).probs
        s    == sampleFromProbVector(pv, m.BOS, u)
        f    == Forward(m, g.pos, g.keys, g.values)
        g1   == [g EXCEPT !.keys = f.keys,
                          !.values = f.values,
                          !.read = f.read,
                          !.nForward = @ + 1,
                          !.sampled = Append(@, s.chosen),
                          !.gap = @ \/ u >= pv.den]
    IN  IF ~ForwardOK(m, g.tokenID, g.pos) THEN [g EXCEPT !.pc = "panic"]
        ELSE IF IsEnd(s.chosen, m.BOS) THEN [g1 EXCEPT !.pc = "ret"]
        ELSE [g1 EXCEPT !.sample = Append(@, m.Chars[s.chosen + 1]),
                        !.tokenID = s.chosen,
                        !.pos = @ + 1]

\* A faulty TraceStep: positions counted from 1.
TraceStepFromOne(m, g, newTokenID) ==
    [Position |-> g.pos + 1, Context |-> g.sample,
     ChosenChar |-> tokenLabel(newTokenID, m.BOS, m.Chars)]

\* steps = append(steps, TraceStep{Position: pos, Context: strings.Join(sample, ""),
\* ChosenChar: tokenLabel(newTokenID, ...), ...}); the context is kept as the
\* sequence of its characters.
TraceStep(m, g, newTokenID) ==
    [Position |-> g.pos, Context |-> g.sample,
     ChosenChar |-> tokenLabel(newTokenID, m.BOS, m.Chars)]

\* A faulty iteration of GenerateSampleWithTrace: the control token is never
\* suppressed, whatever MinLen says.
GenerateSampleWithTraceStepNoMinLen(m, g, logits, ord, u) ==
    LET tp   == toProbVector(logits, g.opts, m.BOS, FALSE, ord)
        s    == sampleFromProbVector(tp.probs, m.BOS, u)
        f    == Forward(m, g.pos, g.keys, g.values)
        g1   == [g EXCEPT !.keys = f.keys,
                          !.values = f.values,
                          !.read = f.read,
                          !.nForward = @ + 1,
                          !.sampled = Append(@, s.chosen),
                          !.gap = @ \/ u >= tp.probs.den,
                          !.steps = Append(@, TraceStep(m, g, s.chosen))]
    IN  IF ~ForwardOK(m, g.tokenID, g.pos) THEN [g EXCEPT !.pc = "panic"]
        ELSE IF IsEnd(s.chosen, m.BOS)
        THEN [g1 EXCEPT !.stopReason = StopEnd, !.pc = "ret"]
        ELSE [g1 EXCEPT !.sample = Append(@, m.Chars[s.chosen + 1]),
                        !.tokenID = s.chosen,
                        !.pos = @ + 1]

\* One iteration of GenerateSampleWithTrace's loop.
GenerateSampleWithTraceStep(m, g, logits, ord, u) ==
    LET suppressEnd == Len(g.sample) < g.opts.MinLen
        tp   == toProbVector(logits, g.opts, m.BOS, suppressEnd, ord)
        s    == sampleFromProbVector(tp.probs, m.BOS, u)
        f    == Forward(m, g.pos, g.keys, g.values)
        g1   == [g EXCEPT !.keys = f.keys,
                          !.values = f.values,
                          !.read = f.read,
                          !.nForward = @ + 1,
                          !.sampled = Append(@, s.chosen),
                          !.gap = @ \/ u >= tp.probs.den,
                          !.steps = Append(@, TraceStep(m, g, s.chosen))]
    IN  IF ~ForwardOK(m, g.tokenID, g.pos) THEN [g EXCEPT !.pc = "panic"]
        ELSE IF IsEnd(s.chosen, m.BOS)
        THEN [g1 EXCEPT !.stopReason = StopEnd, !.pc = "ret"]
        ELSE [g1 EXCEPT !.sample = Append(@, m.Chars[s.chosen + 1]),
                        !.tokenID = s.chosen,
                        !.pos = @ + 1]

\* The orders the top-k sort can leave for these logits (one order when
\* top-k does not apply: the sort is not run).
OrdersFor(m, o, logits) ==
    LET raw  == RawLogits(logits, o.Temperature)
        soft == [i \in 1..Len(raw) |-> ExpW(raw[i] - MaxSeq(raw))]
    IN  IF TopKApplies(o, Len(soft)) THEN SortedOrders(soft)
        ELSE {[i \in 1..Len(soft) |-> i]}

(***************************************************************************)
(* One client: train and generate calls on one model, one after another    *)
(***************************************************************************)
MaxSteps == 2
Seeds == {0, 1}

Config(e, h, l, b) ==
    [NEmpd |-> e, NHead |-> h, NLayer |-> l, BlockSize |-> b, LearningRate |-> 1]

\* The /api/init requests the client may have made.
Configs == {Config(1, 1, 1, 2), Config(1, 1, 0, 3), Config(1, 1, 0, 0)}
DocLists == { <<>>, << <<>> >>, << <<"b">> >>, << <<"b", "a">>, <<"a">> >> }

\* No request body was decoded: TrainBatchedSteps was called directly.
NoTrainBody == [ok |-> FALSE, StepsPerCall |-> 0, BatchSize |-> 0]

\* What an iteration must leave alone when it fails: Data of every parameter,
\* the Adam moments, the step counter.
Learned(m) ==
    [Data  |-> [i \in 1..Len(m.Params) |-> m.Params[i].Data],
     AdamM |-> m.AdamM,
     AdamV |-> m.AdamV,
     Steps |-> m.Steps]

TrIdle ==
    [pc |-> "idle", stepsPerCall |-> 0, batchSize |-> 0, step |-> 0, b |-> 0,
     lastResp |-> EmptyResp, forwards |-> <<>>, phases |-> <<>>, steps0 |-> 0,
     argSteps |-> 0, argBatch |-> 0, body |-> NoTrainBody, pick |-> 0, iter0 |-> <<>>,
     acc |-> <<>>]

NoReply ==
    [op |-> "none", status |-> 0, err |-> "", resp |-> EmptyResp,
     text |-> <<>>, stopReason |-> "", g |-> GenIdle, t |-> TrIdle]

ErrNoDocs == "No training documents provided"
ErrNoModel == "Model not initialized"
ErrBody == "malformed body"

ErrorReply(op, err) == [NoReply EXCEPT !.op = op, !.status = 400, !.err = err]

\* Request bodies of /api/train: none or fields omitted (zero values),
\* malformed, or with the fields given.
TrainBodies ==
    [ok : {TRUE}, StepsPerCall : {0, 1, 2}, BatchSize : {0, 1, 2}]
    \cup {[ok |-> FALSE, StepsPerCall |-> 0, BatchSize |-> 0]}

\* Arguments of a direct TrainBatchedSteps call.
DirectArgs == {-1, 0, 1, 2}

\* TrainBatchedSteps up to its loop.
TrainBegin(m, stepsPerCall, batchSize) ==
    [pc |-> "zero", stepsPerCall |-> AtLeastOne(stepsPerCall),
     batchSize |-> AtLeastOne(batchSize), step |-> 0, b |-> 0,
     lastResp |-> EmptyResp, forwards |-> <<>>, phases |-> <<>>, steps0 |-> m.Steps,
     argSteps |-> stepsPerCall, argBatch |-> batchSize,
     body |-> NoTrainBody, pick |-> 0, iter0 |-> Learned(m),
     acc |-> [i \in 1..Len(m.Params) |-> 0]]

Idle == tr.pc = "idle" /\ gen.pc = "idle"

\* handleTrain up to TrainBatchedSteps' loop.
CTrainStart ==
    /\ Idle
    /\ \E body \in TrainBodies :
         IF docs = <<>>
         THEN /\ reply' = ErrorReply("train", ErrNoDocs)
              /\ UNCHANGED <<model, tr>>
         ELSE IF ~body.ok
         THEN /\ reply' = ErrorReply("train", ErrBody)
              /\ UNCHANGED <<model, tr>>
         ELSE /\ model.Steps + HandlerStepsPerCall(body) <= MaxSteps
              /\ tr' = [TrainBegin(model, HandlerStepsPerCall(body),
                                    HandlerBatchSize(body)) EXCEPT !.body = body]
              /\ reply' = NoReply
              /\ UNCHANGED model
    /\ UNCHANGED <<outsideClient, docs, gen, nUpdates>>

\* TrainBatchedSteps called with any arguments, up to its loop.
CTrainDirect ==
    /\ Idle
    /\ docs # <<>>
    /\ \E stepsPerCall, batchSize \in DirectArgs :
         /\ model.Steps + AtLeastOne(stepsPerCall) <= MaxSteps
         /\ tr' = TrainBegin(model, stepsPerCall, batchSize)
    /\ reply' = NoReply
    /\ UNCHANGED <<outsideClient, model, docs, gen, nUpdates>>

\* Top of an iteration: every parameter's Grad = 0.
CZero ==
    /\ tr.pc = "zero"
    /\ tr.step < tr.stepsPerCall
    /\ model' = ZeroGrads(model)
    /\ tr' = [tr EXCEPT !.pc = "example", !.b = 0, !.phases = Append(@, "zero"),
                         !.iter0 = Learned(model),
                         !.acc = [i \in 1..Len(model.Params) |-> 0]]
    /\ UNCHANGED <<outsideClient, docs, gen, reply, nUpdates>>

\* One trainOneExample of the batch; its error ends the call.
CExample ==
    /\ tr.pc = "example"
    /\ tr.b < tr.batchSize
    /\ \E pick \in 1..Len(docs), c \in GradVals :
         LET r == trainOneExample(model, docs, pick, c)
         IN  IF r.err # ""
             THEN /\ reply' = [ErrorReply("train", r.err) EXCEPT
                                   !.t = [tr EXCEPT !.pick = pick]]
                  /\ tr' = TrIdle
                  /\ UNCHANGED model
             ELSE /\ model' = r.model
                  /\ tr' = [tr EXCEPT !.b = @ + 1, !.lastResp = r.resp,
                                      !.forwards = r.forwards, !.pick = pick,
                                      !.acc = [i \in 1..Len(model.Params) |->
                                                  @[i] + ExampleGrad(c, i)],
                                      !.phases = Append(@, "example")]
                  /\ UNCHANGED reply
    /\ UNCHANGED <<outsideClient, docs, gen, nUpdates>>

\* After the batch: every Grad scaled by 1/batchSize.
CScale ==
    /\ tr.pc = "example"
    /\ tr.b >= tr.batchSize
    /\ model' = ScaleGrads(model, tr.batchSize)
    /\ tr' = [tr EXCEPT !.pc = "update", !.phases = Append(@, "scale")]
    /\ UNCHANGED <<outsideClient, docs, gen, reply, nUpdates>>

\* model.Update(), end of the iteration.
CUpdate ==
    /\ tr.pc = "update"
    /\ model' = Update(model)
    /\ nUpdates' = nUpdates + 1
    /\ tr' = [tr EXCEPT !.pc = "zero", !.step = @ + 1, !.phases = Append(@, "update")]
    /\ UNCHANGED <<outsideClient, docs, gen, reply>>

\* lastResp.Step = model.Steps; return lastResp.
CTrainReturn ==
    /\ tr.pc = "zero"
    /\ tr.step >= tr.stepsPerCall
    /\ reply' = [NoReply EXCEPT !.op = "train", !.status = 200,
                                !.resp = [tr.lastResp EXCEPT !.Step = model.Steps],
                                !.t = tr]
    /\ tr' = TrIdle
    /\ UNCHANGED <<outsideClient, model, docs, gen, nUpdates>>

\* Request bodies of /api/generate and /api/generate_trace.
GenBody(ok, t, k, l) == [ok |-> ok, Temperature |-> t, TopK |-> k, MinLen |-> l]
AbsentGenBody == GenBody(TRUE, 0, 0, 0)

\* handleGenerate (trace = FALSE) or handleGenerateTrace up to the loop.
CGenStart(bodies) ==
    /\ Idle
    /\ \E trace \in BOOLEAN, body \in bodies :
         IF ~body.ok
         THEN /\ reply' = ErrorReply(IF trace THEN "generate_trace" ELSE "generate", ErrBody)
              /\ UNCHANGED gen
         ELSE /\ gen' = GenBegin(model, HandlerOpts(body), trace)
              /\ reply' = NoReply
    /\ UNCHANGED <<outsideClient, model, docs, tr, nUpdates>>

\* A faulty iteration of GenerateSample: Backward is run on the logits, which
\* leaves gradients in the parameters.
CGenerateStepBackward ==
    /\ gen.pc = "loop"
    /\ ~gen.trace
    /\ LoopRuns(gen.pos, model.Config.BlockSize)
    /\ \E logits \in LogitVecs(model.VocabSize) :
         \E ord \in OrdersFor(model, gen.opts, logits) :
           \E u \in Draws(toProbVector(logits, gen.opts, model.BOS,
                                       Len(gen.sample) < gen.opts.MinLen, ord).probs) :
              gen' = GenerateSampleStep(model, gen, logits, ord, u)
    /\ model' = [model EXCEPT !.Params =
                   [i \in 1..Len(model.Params) |->
                      [model.Params[i] EXCEPT !.Grad = [n |-> 1, d |-> 1]]]]
    /\ UNCHANGED <<outsideClient, docs, tr, reply, nUpdates>>

\* One iteration of GenerateSample.
CGenerateStep ==
    /\ gen.pc = "loop"
    /\ ~gen.trace
    /\ LoopRuns(gen.pos, model.Config.BlockSize)
    /\ \E logits \in LogitVecs(model.VocabSize) :
         \E ord \in OrdersFor(model, gen.opts, logits) :
           \E u \in Draws(toProbVector(logits, gen.opts, model.BOS,
                                       Len(gen.sample) < gen.opts.MinLen, ord).probs) :
              gen' = GenerateSampleStep(model, gen, logits, ord, u)
    /\ UNCHANGED <<outsideClient, model, docs, tr, reply, nUpdates>>

\* One iteration of GenerateSampleWithTrace.
CTraceStep ==
    /\ gen.pc = "loop"
    /\ gen.trace
    /\ LoopRuns(gen.pos, model.Config.BlockSize)
    /\ \E logits \in LogitVecs(model.VocabSize) :
         \E ord \in OrdersFor(model, gen.opts, logits) :
           \E u \in Draws(toProbVector(logits, gen.opts, model.BOS,
                                       Len(gen.sample) < gen.opts.MinLen, ord).probs) :
              gen' = GenerateSampleWithTraceStep(model, gen, logits, ord, u)
    /\ UNCHANGED <<outsideClient, model, docs, tr, reply, nUpdates>>

\* The loop is over (break, or pos reached BlockSize): the text is returned.
CGenReturn ==
    /\ \/ gen.pc = "ret"
       \/ gen.pc = "loop" /\ ~LoopRuns(gen.pos, model.Config.BlockSize)
    /\ reply' = [NoReply EXCEPT !.op = IF gen.trace THEN "generate_trace" ELSE "generate",
                                !.status = 200,
                                !.text = gen.sample,
                                !.stopReason = gen.stopReason,
                                !.g = gen]
    /\ gen' = GenIdle
    /\ UNCHANGED <<outsideClient, model, docs, tr, nUpdates>>

\* The state after /api/init with some documents and configuration.
ClientInit ==
    /\ \E ds \in DocLists, config \in Configs, seed \in Seeds :
         /\ model = NewModel(config, ds, seed)
         /\ docs = ds
    /\ tr = TrIdle
    /\ gen = GenIdle
    /\ reply = NoReply
    /\ nUpdates = 0

\* Nothing of the client exists (the autograd engine alone).
ClientParked ==
    /\ model = <<>>
    /\ docs = <<>>
    /\ tr = TrIdle
    /\ gen = GenIdle
    /\ reply = NoReply
    /\ nUpdates = 0

\* No Value of the stand-alone autograd engine exists.
\* No server runs.
ServerParked ==
    /\ srv = <<>>
    /\ objs = <<>>
    /\ reqs = <<>>
    /\ discarded = {}

\* No function has been called directly.
ProbeParked == probe = <<>>

GradParked ==
    /\ heap = <<>>
    /\ opOf = <<>>
    /\ callRoots = <<>>
    /\ lastTopo = <<>>
    /\ zeroAtCall = FALSE
    /\ alone = <<>>
    /\ fresh = TRUE
    /\ nBackward = 0

TrainNext ==
    \/ CTrainStart
    \/ CTrainDirect
    \/ CZero
    \/ CExample
    \/ CScale
    \/ CUpdate
    \/ CTrainReturn
    \/ CGenStart({AbsentGenBody})
    \/ CGenerateStep
    \/ CTraceStep
    \/ CGenReturn

OneClientInit == ClientInit /\ GradParked /\ ServerParked /\ ProbeParked

SpecTrain == OneClientInit /\ [][TrainNext]_vars

GradNext == GNewValue \/ GAdd \/ GMul \/ GBackward \/ GZeroGrad

EngineInit == GradInit /\ ClientParked /\ ServerParked /\ ProbeParked

SpecGrad == EngineInit /\ [][GradNext]_vars

LastRoot == callRoots[Len(callRoots)]
Leaves == {n \in 1..Len(heap) : IsLeaf(heap, n)}

\* C9: after a Backward call that started with every grad 0, each leaf's grad
\* is the true partial derivative of the root with respect to it, which is the
\* sum over all root-to-leaf paths of the product of the local gradients; and
\* the traversal order of every call holds each reachable node exactly once,
\* after all the nodes it was computed from.
C9_BackwardIsChainRule ==
    callRoots # <<>> =>
        /\ zeroAtCall =>
              \A n \in Leaves :
                 /\ heap[n].Grad = PathGrad(heap, LastRoot, n)
                 /\ heap[n].Grad = TrueDeriv(heap, opOf, LastRoot, n)
        /\ SeqToSet(lastTopo) = Reach(heap, LastRoot)
        /\ Len(lastTopo) = Cardinality(Reach(heap, LastRoot))
        /\ \A i \in 1..Len(lastTopo) :
              \A j \in 1..Len(heap[lastTopo[i]].Children) :
                 \E k \in 1..(i - 1) : lastTopo[k] = heap[lastTopo[i]].Children[j]

\* C9 witness: a call from zeroed grads on a diamond: a leaf is an operand of
\* the root and of an operation node below the root that uses one node as both
\* of its operands, and its grad is not 0.
C9_Witness ==
    /\ callRoots # <<>>
    /\ zeroAtCall
    /\ \E n \in Leaves : \E m \in Reach(heap, LastRoot) \ {LastRoot} :
          /\ ~IsLeaf(heap, m)
          /\ heap[m].Children[1] = heap[m].Children[2]
          /\ n \in SeqToSet(heap[LastRoot].Children)
          /\ m \in SeqToSet(heap[LastRoot].Children)
          /\ n \in Reach(heap, m)
          /\ PathCount(heap, LastRoot, n) >= 3
          /\ heap[n].Grad # 0

LeafGradsAreSumOfCalls == \A n \in Leaves : heap[n].Grad = alone[n]

\* C10 as stated: after any sequence of Backward calls without zeroing in
\* between, each leaf's grad is the sum of what each call alone, started from
\* zeroed grads, would have produced.
C10_AccumulatesAnySequence == LeafGradsAreSumOfCalls

\* C10 amended: the same, for sequences in which every call starts with grad 0
\* on every operation node below its root and does not take as root a leaf
\* whose grad is not 0.
C10_AccumulatesFreshGraphs == fresh => LeafGradsAreSumOfCalls

\* C10 witness: two calls without zeroing in between, on different operation
\* nodes that share a leaf, whose grad is not 0 and is what the two added.
C10_Witness ==
    /\ fresh
    /\ Len(callRoots) = 2
    /\ callRoots[1] # callRoots[2]
    /\ ~IsLeaf(heap, callRoots[1])
    /\ ~IsLeaf(heap, callRoots[2])
    /\ \E n \in Leaves :
          /\ n \in Reach(heap, callRoots[1]) \cap Reach(heap, callRoots[2])
          /\ heap[n].Grad # 0
          /\ alone[n] # PathGrad(heap, callRoots[2], n)

\* Request bodies of the generation endpoints: fields absent (0) or given;
\* temperature in tenths.
GenBodies ==
    {GenBody(TRUE, t, k, l) : t \in {0, 1, 10}, k \in {0, 1, 2}, l \in {0, 1, 2}}
    \cup {GenBody(FALSE, 0, 0, 0)}

GenNext ==
    \/ CGenStart(GenBodies)
    \/ CGenerateStep
    \/ CTraceStep
    \/ CGenReturn

SpecGen == OneClientInit /\ [][GenNext]_vars

(***************************************************************************)
(* The server: concurrent requests                                         *)
(***************************************************************************)
\* Requests in progress at one time, models built, updates applied.
MaxReqs == 2
MaxModels == 2
MaxTrains == 1
ReqIds == 1..MaxReqs

\* The nil *Model.
Nil == 0

\* TrainBatchedSteps as a whole, over sets of outcomes: every choice of
\* document and every gradient of every example.  An outcome is
\* [err, model, resp].
ExampleOutcomes(S, ds) ==
    UNION {IF s.err # "" THEN {s}
           ELSE {LET r == trainOneExample(s.model, ds, pick, c)
                 IN  IF r.err # ""
                     THEN [err |-> r.err, model |-> s.model, resp |-> EmptyResp]
                     ELSE [err |-> "", model |-> r.model, resp |-> r.resp]
                 : pick \in 1..Len(ds), c \in GradVals}
           : s \in S}

RECURSIVE BatchOutcomes(_, _, _)
BatchOutcomes(S, ds, b) ==
    IF b = 0 THEN S ELSE BatchOutcomes(ExampleOutcomes(S, ds), ds, b - 1)

IterationOutcomes(S, ds, batchSize) ==
    LET zeroed == {IF s.err # "" THEN s ELSE [s EXCEPT !.model = ZeroGrads(@)] : s \in S}
        batch  == BatchOutcomes(zeroed, ds, batchSize)
    IN  {IF s.err # "" THEN s
         ELSE [s EXCEPT !.model = Update(ScaleGrads(@, batchSize))] : s \in batch}

RECURSIVE StepsOutcomes(_, _, _, _)
StepsOutcomes(S, ds, step, batchSize) ==
    IF step = 0 THEN S
    ELSE StepsOutcomes(IterationOutcomes(S, ds, batchSize), ds, step - 1, batchSize)

TrainBatchedSteps(m, ds, stepsPerCall, batchSize) ==
    LET start == {[err |-> "", model |-> m, resp |-> EmptyResp]}
        done  == StepsOutcomes(start, ds, AtLeastOne(stepsPerCall), AtLeastOne(batchSize))
    IN  {IF s.err # "" THEN s ELSE [s EXCEPT !.resp.Step = s.model.Steps] : s \in done}

\* GenerateSample / GenerateSampleWithTrace as a whole: the loop variables
\* at the return, for every logits, sort order and draw of every step.
GenStepOutcomes(m, g) ==
    IF g.pc = "loop" /\ LoopRuns(g.pos, m.Config.BlockSize)
    THEN UNION {UNION {{IF g.trace
                        THEN GenerateSampleWithTraceStep(m, g, logits, ord, u)
                        ELSE GenerateSampleStep(m, g, logits, ord, u)
                        : u \in Draws(toProbVector(logits, g.opts, m.BOS,
                                                   Len(g.sample) < g.opts.MinLen, ord).probs)}
                       : ord \in OrdersFor(m, g.opts, logits)}
                : logits \in LogitVecs(m.VocabSize)}
    ELSE {g}

RECURSIVE GenLoopOutcomes(_, _, _)
GenLoopOutcomes(m, G, k) ==
    IF k = 0 THEN G
    ELSE GenLoopOutcomes(m, UNION {GenStepOutcomes(m, g) : g \in G}, k - 1)

GenerateOutcomes(m, o, trace) ==
    GenLoopOutcomes(m, {GenBegin(m, o, trace)}, m.Config.BlockSize)

\* The requests a client can send.
SrvConfig == Config(1, 1, 0, 1)
InitBody(ok, ds) == [ok |-> ok, Config |-> SrvConfig, Docs |-> ds]
InitBodies == {InitBody(TRUE, <<>>), InitBody(TRUE, << <<"a">> >>), InitBody(FALSE, <<>>)}
\* A configuration with no positions: every training example fails.
NoBlockConfig == Config(1, 1, 0, 0)
\* The /api/init requests of clients that always send a document.
DocInitBodies ==
    {InitBody(TRUE, << <<"a">> >>),
     [InitBody(TRUE, << <<"a">> >>) EXCEPT !.Config = NoBlockConfig]}
SrvTrainBodies ==
    {[ok |-> TRUE, StepsPerCall |-> 1, BatchSize |-> 1],
     [ok |-> FALSE, StepsPerCall |-> 0, BatchSize |-> 0]}
SrvGenBodies == {AbsentGenBody, GenBody(FALSE, 0, 0, 0)}
Kinds == {"init", "train", "generate", "generate_trace"}

NoReq ==
    [kind |-> "none", pc |-> "none",
     init |-> InitBody(TRUE, <<>>),
     train |-> [ok |-> TRUE, StepsPerCall |-> 0, BatchSize |-> 0],
     gen |-> AbsentGenBody,
     model |-> Nil, docs |-> <<>>,
     status |-> 0, err |-> "", resp |-> EmptyResp, text |-> <<>>, stopReason |-> "",
     params |-> 0,
     current |-> Nil, gone |-> {}]

\* A Model object on the heap, with its mutex; updates counts its optimizer
\* updates and builtFrom records the documents NewModel was given.
Obj(m, ds) == [m |-> m, mu |-> 0, updates |-> 0, builtFrom |-> ds]

ServerInit ==
    /\ srv = [mu |-> [w |-> 0, r |-> {}], model |-> Nil, docs |-> <<>>]
    /\ objs = <<>>
    /\ reqs = [r \in ReqIds |-> NoReq]
    /\ discarded = {}

At(r, kinds, pc) == reqs[r].kind \in kinds /\ reqs[r].pc = pc

Calls == {"train", "generate", "generate_trace"}

Free(r) == reqs[r].pc \in {"none", "done"}
InFlight(kind) == {r \in ReqIds : reqs[r].kind = kind /\ ~Free(r)}

RECURSIVE UpdatesFrom(_)
UpdatesFrom(i) == IF i > Len(objs) THEN 0 ELSE objs[i].updates + UpdatesFrom(i + 1)

\* Whether one more request of this kind stays within the bounds.
Admits(kind) ==
    /\ kind = "init" =>
         Len(objs) + Cardinality({r \in InFlight("init") : reqs[r].pc = "start"}) < MaxModels
    /\ kind = "train" => UpdatesFrom(1) + Cardinality(InFlight("train")) < MaxTrains

\* A request arrives and its handler starts, in the first free slot.
\* current and gone record what the server's model was then and which
\* models had been replaced.
ReceiveFrom(kinds, inits, trains, gens) ==
    /\ \E r \in ReqIds, kind \in kinds :
       \E ib \in (IF kind = "init" THEN inits ELSE {NoReq.init}),
          tb \in (IF kind = "train" THEN trains ELSE {NoReq.train}),
          gb \in (IF kind \in {"generate", "generate_trace"} THEN gens ELSE {NoReq.gen}) :
         /\ Free(r)
         /\ \A q \in 1..(r - 1) : ~Free(q)
         /\ Admits(kind)
         /\ reqs' = [reqs EXCEPT ![r] =
                       [NoReq EXCEPT !.kind = kind, !.pc = "start",
                                     !.init = ib, !.train = tb, !.gen = gb,
                                     !.current = srv.model, !.gone = discarded]]
    /\ UNCHANGED <<outsideServer, srv, objs, discarded>>

Receive == ReceiveFrom(Kinds, InitBodies, SrvTrainBodies, SrvGenBodies)
ReceiveWithDocs ==
    ReceiveFrom({"init", "train", "generate_trace"}, DocInitBodies,
                {[ok |-> TRUE, StepsPerCall |-> 1, BatchSize |-> 1]}, SrvGenBodies)

\* handleInit up to setModel's Lock: decode, NewModel.
InitBuild(r) ==
    /\ At(r, {"init"}, "start")
    /\ IF ~reqs[r].init.ok
       THEN /\ reqs' = [reqs EXCEPT ![r].pc = "done", ![r].status = 400, ![r].err = ErrBody]
            /\ UNCHANGED objs
       ELSE /\ objs' = Append(objs, Obj(NewModel(reqs[r].init.Config, reqs[r].init.Docs, 0), reqs[r].init.Docs))
            /\ reqs' = [reqs EXCEPT ![r].pc = "setModel", ![r].model = Len(objs) + 1]
    /\ UNCHANGED <<outsideServer, srv, discarded>>

\* setModel: s.mu.Lock() is called.  sync.RWMutex.Lock takes the writers'
\* mutex and announces the writer: from then on RLock calls wait.
SetModelLock(r) ==
    /\ At(r, {"init"}, "setModel")
    /\ srv.mu.w = 0
    /\ srv' = [srv EXCEPT !.mu.w = r]
    /\ reqs' = [reqs EXCEPT ![r].pc = "drain"]
    /\ UNCHANGED <<outsideServer, objs, discarded>>

\* setModel: s.mu.Lock() returns when the readers holding the lock have
\* released it.
SetModelDrained(r) ==
    /\ At(r, {"init"}, "drain")
    /\ srv.mu.r = {}
    /\ reqs' = [reqs EXCEPT ![r].pc = "assignModel"]
    /\ UNCHANGED <<outsideServer, srv, objs, discarded>>

\* setModel: s.model = model
SetModelAssignModel(r) ==
    /\ At(r, {"init"}, "assignModel")
    /\ srv' = [srv EXCEPT !.model = reqs[r].model]
    /\ discarded' = discarded \cup ({srv.model} \ {Nil})
    /\ reqs' = [reqs EXCEPT ![r].pc = "assignDocs"]
    /\ UNCHANGED <<outsideServer, objs>>

\* setModel: s.docs = copy of docs
SetModelAssignDocs(r) ==
    /\ At(r, {"init"}, "assignDocs")
    /\ srv' = [srv EXCEPT !.docs = reqs[r].init.Docs]
    /\ reqs' = [reqs EXCEPT ![r].pc = "unlock"]
    /\ UNCHANGED <<outsideServer, objs, discarded>>

\* setModel's deferred Unlock, and handleInit's reply.
InitReturn(r) ==
    /\ At(r, {"init"}, "unlock")
    /\ srv' = [srv EXCEPT !.mu.w = 0]
    /\ reqs' = [reqs EXCEPT ![r].pc = "done", ![r].status = 200,
                            ![r].params = Len(objs[reqs[r].model].m.Params)]
    /\ UNCHANGED <<outsideServer, objs, discarded>>

\* A faulty RLock: the reader does not wait for the writer.
SnapshotRLockUnguarded(r) ==
    /\ At(r, Calls, "start")
    /\ srv' = [srv EXCEPT !.mu.r = @ \cup {r}]
    /\ reqs' = [reqs EXCEPT ![r].pc = "snapshot"]
    /\ UNCHANGED <<outsideServer, objs, discarded>>

\* snapshot: s.mu.RLock()
SnapshotRLock(r) ==
    /\ At(r, Calls, "start")
    /\ srv.mu.w = 0
    /\ srv' = [srv EXCEPT !.mu.r = @ \cup {r}]
    /\ reqs' = [reqs EXCEPT ![r].pc = "snapshot"]
    /\ UNCHANGED <<outsideServer, objs, discarded>>

\* snapshot: read s.model and copy s.docs, deferred RUnlock.
SnapshotReturn(r) ==
    /\ At(r, Calls, "snapshot")
    /\ srv' = [srv EXCEPT !.mu.r = @ \ {r}]
    /\ reqs' = [reqs EXCEPT ![r].pc = "check", ![r].model = srv.model, ![r].docs = srv.docs]
    /\ UNCHANGED <<outsideServer, objs, discarded>>

\* A faulty Refusal: only the missing model is refused.
RefusalNilOnly(kind, m, ds) == IF m = Nil THEN ErrNoModel ELSE ""

\* The handlers' checks of what snapshot returned: the error, or "".
Refusal(kind, m, ds) ==
    IF m = Nil THEN ErrNoModel
    ELSE IF kind = "train" /\ Len(ds) = 0 THEN ErrNoDocs
    ELSE ""

\* The handler returns 400, or goes on to model.mu.Lock().
Check(r) ==
    /\ At(r, Calls, "check")
    /\ LET e == Refusal(reqs[r].kind, reqs[r].model, reqs[r].docs)
       IN  IF e # ""
           THEN reqs' = [reqs EXCEPT ![r].pc = "done", ![r].status = 400, ![r].err = e]
           ELSE reqs' = [reqs EXCEPT ![r].pc = "lock"]
    /\ UNCHANGED <<outsideServer, srv, objs, discarded>>

\* A faulty MutexFree: Lock never waits.
MutexAlwaysFree(holder) == TRUE

\* sync.Mutex: Lock returns only when no one holds the mutex.
MutexFree(holder) == holder = 0

\* A faulty ModelLock: the mutex of the server's current model is taken, not
\* that of the model snapshot returned.
ModelLockCurrent(r) ==
    /\ At(r, Calls, "lock")
    /\ srv.model # Nil
    /\ MutexFree(objs[srv.model].mu)
    /\ objs' = [objs EXCEPT ![srv.model].mu = r]
    /\ reqs' = [reqs EXCEPT ![r].pc = "locked"]
    /\ UNCHANGED <<outsideServer, srv, discarded>>

\* model.mu.Lock()
ModelLock(r) ==
    /\ At(r, Calls, "lock")
    /\ MutexFree(objs[reqs[r].model].mu)
    /\ objs' = [objs EXCEPT ![reqs[r].model].mu = r]
    /\ reqs' = [reqs EXCEPT ![r].pc = "locked"]
    /\ UNCHANGED <<outsideServer, srv, discarded>>

\* decodeOptionalJSON under the lock: 400 on a malformed body.
Decode(r) ==
    /\ At(r, Calls, "locked")
    /\ LET ok == IF reqs[r].kind = "train" THEN reqs[r].train.ok ELSE reqs[r].gen.ok
       IN  IF ok
           THEN reqs' = [reqs EXCEPT ![r].pc = "computing"]
           ELSE reqs' = [reqs EXCEPT ![r].pc = "unlock", ![r].status = 400, ![r].err = ErrBody]
    /\ UNCHANGED <<outsideServer, srv, objs, discarded>>

\* handleTrain: defaults and TrainBatchedSteps, to its return.
Train(r) ==
    /\ At(r, {"train"}, "computing")
    /\ LET id == reqs[r].model
       IN  \E out \in TrainBatchedSteps(objs[id].m, reqs[r].docs,
                                        HandlerStepsPerCall(reqs[r].train),
                                        HandlerBatchSize(reqs[r].train)) :
             /\ objs' = [objs EXCEPT ![id].m = out.model,
                                     ![id].updates = @ + (out.model.Steps - objs[id].m.Steps)]
             /\ reqs' = [reqs EXCEPT ![r].pc = "unlock",
                                     ![r].status = IF out.err = "" THEN 200 ELSE 400,
                                     ![r].err = out.err,
                                     ![r].resp = out.resp]
    /\ UNCHANGED <<outsideServer, srv, discarded>>

\* handleGenerate: defaults and GenerateSample, to its return.
Generate(r) ==
    /\ At(r, {"generate"}, "computing")
    /\ \E g \in GenerateOutcomes(objs[reqs[r].model].m, HandlerOpts(reqs[r].gen), FALSE) :
         reqs' = [reqs EXCEPT ![r].pc = "unlock", ![r].status = 200, ![r].text = g.sample]
    /\ UNCHANGED <<outsideServer, srv, objs, discarded>>

\* handleGenerateTrace: defaults and GenerateSampleWithTrace, to its return.
GenerateTrace(r) ==
    /\ At(r, {"generate_trace"}, "computing")
    /\ \E g \in GenerateOutcomes(objs[reqs[r].model].m, HandlerOpts(reqs[r].gen), TRUE) :
         reqs' = [reqs EXCEPT ![r].pc = "unlock", ![r].status = 200, ![r].text = g.sample,
                              ![r].stopReason = g.stopReason]
    /\ UNCHANGED <<outsideServer, srv, objs, discarded>>

\* A faulty return: the mutex is released after a computation that
\* succeeded only, as without defer.
UnlockOnSuccess(r) ==
    /\ At(r, Calls, "unlock")
    /\ objs' = IF reqs[r].status = 200
               THEN [objs EXCEPT ![reqs[r].model].mu = 0]
               ELSE objs
    /\ reqs' = [reqs EXCEPT ![r].pc = "done"]
    /\ UNCHANGED <<outsideServer, srv, discarded>>

\* The deferred model.mu.Unlock(), and the reply.
ModelUnlock(r) ==
    /\ At(r, Calls, "unlock")
    /\ objs' = [objs EXCEPT ![reqs[r].model].mu = 0]
    /\ reqs' = [reqs EXCEPT ![r].pc = "done"]
    /\ UNCHANGED <<outsideServer, srv, discarded>>

HandleInit == \E r \in ReqIds : InitBuild(r)
SetModel ==
    \E r \in ReqIds :
       \/ SetModelLock(r)
       \/ SetModelDrained(r)
       \/ SetModelAssignModel(r)
       \/ SetModelAssignDocs(r)
       \/ InitReturn(r)
Snapshot == \E r \in ReqIds : SnapshotRLock(r) \/ SnapshotReturn(r)
HandlerCheck == \E r \in ReqIds : Check(r)
HandlerLock == \E r \in ReqIds : ModelLock(r)
HandlerDecode == \E r \in ReqIds : Decode(r)
HandleTrain == \E r \in ReqIds : Train(r)
HandleGenerate == \E r \in ReqIds : Generate(r)
HandleGenerateTrace == \E r \in ReqIds : GenerateTrace(r)
HandlerUnlock == \E r \in ReqIds : ModelUnlock(r)

Next ==
    \/ Receive
    \/ HandleInit
    \/ SetModel
    \/ Snapshot
    \/ HandlerCheck
    \/ HandlerLock
    \/ HandlerDecode
    \/ HandleTrain
    \/ HandleGenerate
    \/ HandleGenerateTrace
    \/ HandlerUnlock

Init == ServerInit /\ GradParked /\ ClientParked /\ ProbeParked

Spec == Init /\ [][Next]_vars

\* The steps of the handler serving request r that take no lock and run
\* no computation on a model.
Proceed(r) ==
    \/ SetModelAssignModel(r)
    \/ SetModelAssignDocs(r)
    \/ InitReturn(r)
    \/ SnapshotReturn(r)
    \/ Check(r)
    \/ Decode(r)
    \/ ModelUnlock(r)

\* The handler's calls of Lock and RLock.
TakeLock(r) == ModelLock(r) \/ SetModelLock(r) \/ SetModelDrained(r) \/ SnapshotRLock(r)

\* The handler is in NewModel, TrainBatchedSteps or a generation loop.
Computes(r) == At(r, {"init"}, "start") \/ At(r, Calls, "computing")

\* Every handler goroutine keeps running (WF), a goroutine waiting in Lock
\* or RLock gets the lock when it is free again and again (SF: sync.Mutex
\* and sync.RWMutex hand the lock to waiters), and the computations, whose
\* loops are bounded, come to their end.
FairLocks ==
    \A r \in ReqIds :
       /\ WF_vars(Proceed(r))
       /\ SF_vars(TakeLock(r))
       /\ []<>~Computes(r)

NextWithDocs ==
    \/ ReceiveWithDocs
    \/ HandleInit
    \/ SetModel
    \/ Snapshot
    \/ HandlerCheck
    \/ HandlerLock
    \/ HandlerDecode
    \/ HandleTrain
    \/ HandleGenerateTrace
    \/ HandlerUnlock

SpecFair == Init /\ [][NextWithDocs]_vars /\ FairLocks

(***************************************************************************)
(* Direct calls of the sampler's functions and of encodeDoc                *)
(***************************************************************************)
MaxVocab == 3

NoProbe ==
    [fn |-> "none", body |-> [ok |-> TRUE, Temperature |-> 0, TopK |-> 0, MinLen |-> 0],
     logits |-> <<>>, opts |-> [Temperature |-> 0, TopK |-> 0, MinLen |-> 0],
     bos |-> 0, suppressEnd |-> FALSE, ord |-> <<>>, raw |-> <<>>,
     probs |-> [w |-> <<>>, den |-> 0], u |-> 0, fallback |-> 0,
     res |-> [chosen |-> 0, chosenProb |-> 0, cumBefore |-> 0, cumAfter |-> 0],
     doc |-> <<>>, chars |-> <<>>, tokens |-> <<>>,
     topK |-> <<>>, chosenRank |-> 0]

\* Temperatures (tenths) and top-k values samplingConfig can hand on for a
\* vocabulary of n tokens.
ProbeTemperatures == {1, 7, 10}
ProbeOpts(n) == [Temperature : ProbeTemperatures, TopK : 0..n, MinLen : {0}]

\* Vectors sampleFromProbVector is called on directly.
SampleVecs ==
    {[w |-> <<0, 1, 0>>, den |-> 1], [w |-> <<1, 1>>, den |-> 2],
     [w |-> <<1, 0, 2>>, den |-> 3], [w |-> <<0, 0, 1>>, den |-> 1]}

ProbeInit == probe = NoProbe

\* toProbVector(logits, opts, bosTokenID, suppressEnd) for the logits of a
\* model of n tokens.
PToProbVector ==
    /\ probe.fn = "none"
    /\ \E n \in 1..MaxVocab :
       \E logits \in LogitVecs(n), o \in ProbeOpts(n), suppressEnd \in BOOLEAN :
       \E ord \in OrdersFor(<<>>, o, logits) :
          LET r == toProbVector(logits, o, n - 1, suppressEnd, ord)
          IN  probe' = [NoProbe EXCEPT !.fn = "toProbVector", !.logits = logits,
                                       !.opts = o, !.bos = n - 1,
                                       !.suppressEnd = suppressEnd, !.ord = ord,
                                       !.raw = r.raw, !.probs = r.probs]
    /\ UNCHANGED outsideProbe

\* The smallest vocabulary in which the handlers' default top-k leaves a
\* token out.
RequestVocab == DefaultTopK + 1

\* The options of /api/generate and /api/generate_trace request bodies.
RequestBodies == [ok : {TRUE}, Temperature : {0}, TopK : {0, 2}, MinLen : {0, 1}]

\* The logits Forward may return to such a request: two to four of the
\* tokens ahead of the others.
RequestLogits ==
    {l \in LogitVecs(RequestVocab) :
        Cardinality({i \in 1..RequestVocab : l[i] = 2}) \in 2..4}

\* handleGenerate or handleGenerateTrace up to the first toProbVector call of
\* the loop, on a model of RequestVocab tokens: the handler's defaults,
\* samplingConfig, Forward (any logits), suppressEnd with nothing sampled yet.
PGenerateRequest ==
    /\ probe.fn = "none"
    /\ \E body \in RequestBodies, logits \in RequestLogits :
         LET o           == samplingConfig(HandlerOpts(body), RequestVocab)
             suppressEnd == 0 < o.MinLen
         IN  \E ord \in OrdersFor(<<>>, o, logits) :
                LET r == toProbVector(logits, o, RequestVocab - 1, suppressEnd, ord)
                IN  probe' = [NoProbe EXCEPT !.fn = "handleGenerate", !.body = body,
                                             !.logits = logits, !.opts = o,
                                             !.bos = RequestVocab - 1,
                                             !.suppressEnd = suppressEnd, !.ord = ord,
                                             !.raw = r.raw, !.probs = r.probs]
    /\ UNCHANGED outsideProbe

\* Options and logits of one iteration of GenerateSampleWithTrace's loop on a
\* model of RequestVocab tokens: a request with top_k = RequestVocab or
\* without top_k, and the first three tokens or the first, third and last
\* token ahead of the others.
TraceInputs ==
    [TopK : {0, RequestVocab},
     logits : {v \in RequestLogits :
                  \/ \A i \in 1..RequestVocab : v[i] = 2 <=> i <= 3
                  \/ \A i \in 1..RequestVocab : v[i] = 2 <=> i \in {1, 3, RequestVocab}}]

\* One iteration of GenerateSampleWithTrace's loop up to the TraceStep it
\* appends, at any length of the text so far (suppressEnd or not).
PTraceStep ==
    /\ probe.fn = "none"
    /\ \E in \in TraceInputs, suppressEnd \in BOOLEAN :
         LET body == [ok |-> TRUE, Temperature |-> 0, TopK |-> in.TopK, MinLen |-> 0]
             o    == samplingConfig(HandlerOpts(body), RequestVocab)
         IN  \E ord \in OrdersFor(<<>>, o, in.logits) :
                LET r == toProbVector(in.logits, o, RequestVocab - 1, suppressEnd, ord)
                IN  \E cand \in SortedOrders(r.probs.w), u \in Draws(r.probs) :
                       LET topK == topKCandidates(r.raw, r.probs, TraceCandidates, cand)
                           res  == sampleFromProbVector(r.probs, RequestVocab - 1, u)
                       IN  probe' = [NoProbe EXCEPT
                                        !.fn = "traceStep", !.body = body,
                                        !.logits = in.logits, !.opts = o,
                                        !.bos = RequestVocab - 1,
                                        !.suppressEnd = suppressEnd,
                                        !.raw = r.raw, !.probs = r.probs,
                                        !.u = u, !.fallback = RequestVocab - 1,
                                        !.res = res, !.topK = topK,
                                        !.chosenRank = chosenRank(topK, res.chosen,
                                                                  Len(r.probs.w))]
    /\ UNCHANGED outsideProbe

\* sampleFromProbVector(probs, model.BOS) on what toProbVector returned.
PSample ==
    /\ probe.fn = "toProbVector"
    /\ \E u \in Draws(probe.probs) :
          probe' = [probe EXCEPT !.fn = "sampleFromProbVector", !.u = u,
                                 !.fallback = probe.bos,
                                 !.res = sampleFromProbVector(probe.probs, probe.bos, u)]
    /\ UNCHANGED outsideProbe

\* Longest document encoded.
MaxDocLen == 3

\* Documents of at most n characters.
DocsUpTo(n) == UNION {[1..k -> {"a", "b"}] : k \in 0..n}

\* encodeDoc(doc, model.Chars, model.BOS) for the vocabulary of a model built
\* from some documents, on any document.
PEncodeDoc ==
    /\ probe.fn = "none"
    /\ \E ds \in DocLists, doc \in DocsUpTo(MaxDocLen) :
         LET chars == SortRunes(CharSet(ds))
             bos   == Len(chars)
         IN  probe' = [NoProbe EXCEPT !.fn = "encodeDoc", !.doc = doc, !.chars = chars,
                                      !.bos = bos,
                                      !.tokens = encodeDoc(doc, chars, bos)]
    /\ UNCHANGED outsideProbe

\* sampleFromProbVector on a given vector, with any fallback token.
PSampleVector ==
    /\ probe.fn = "none"
    /\ \E pv \in SampleVecs :
       \E u \in Draws(pv), fallback \in 0..(Len(pv.w) - 1) :
          probe' = [NoProbe EXCEPT !.fn = "sampleFromProbVector", !.probs = pv,
                                   !.u = u, !.fallback = fallback,
                                   !.res = sampleFromProbVector(pv, fallback, u)]
    /\ UNCHANGED outsideProbe

SamplerInit == ProbeInit /\ GradParked /\ ClientParked /\ ServerParked

SamplerNext == PToProbVector \/ PGenerateRequest \/ PSample \/ PSampleVector

SpecSampler == SamplerInit /\ [][SamplerNext]_vars

\* Single calls of encodeDoc and single iterations of the trace loop.
CallsNext == PTraceStep \/ PEncodeDoc

SpecCalls == SamplerInit /\ [][CallsNext]_vars

(***************************************************************************)
(* /api/init calls, one after another, and the first Forward on the model  *)
(***************************************************************************)
\* /api/init requests made.
MaxInits == 2

InitDocLists ==
    { <<>>,
      << <<"b">> >>,
      << <<"b">>, <<"b">> >>,
      << <<"b", "a", "b">> >>,
      << <<"a", "b">>, <<"b", "a">> >>,
      << <<"b", "a">>, <<"a", "b">> >> }

\* n_embd, n_head, n_layer, block_size as the request's JSON gives them.
InitConfigs ==
    { Config(4, 2, 1, 8), Config(1, 1, 0, 1), Config(2, 1, 2, 1),
      Config(3, 2, 1, 1), Config(1, 0, 0, 1) }

\* headDim := m.Config.NEmpd / m.Config.NHead
HeadDim(config) == config.NEmpd \div config.NHead

\* xAttn after the loop over the heads: headDim entries appended per head.
XAttnLen(config) == config.NHead * HeadDim(config)

\* The first Forward call of a train or generate request on the model: it
\* panics (index out of range, division by zero) or gives, for every layer,
\* the length of the concatenated heads.
FirstForward(m) ==
    IF ~ForwardOK(m, m.BOS, 0) THEN [done |-> TRUE, err |-> "panic", xAttn |-> <<>>]
    ELSE [done |-> TRUE, err |-> "",
          xAttn |-> [li \in 1..m.Config.NLayer |-> XAttnLen(m.Config)]]

NotForwarded == [done |-> FALSE, err |-> "", xAttn |-> <<>>]

InitsInit == probe = <<>> /\ model = <<>> /\ docs = <<>>

\* handleInit: NewModel, setModel, and the response's params.
PInitialize ==
    /\ Len(probe) < MaxInits
    /\ \E ds \in InitDocLists, config \in InitConfigs, seed \in Seeds :
         LET m == NewModel(config, ds, seed)
         IN  /\ model' = m
             /\ docs' = ds
             /\ probe' = Append(probe, [docs |-> ds, config |-> config, seed |-> seed,
                                         model |-> m, params |-> Len(m.Params),
                                         forward |-> NotForwarded])
    /\ UNCHANGED <<gradVars, srvVars, tr, gen, reply, nUpdates>>

\* The first Forward on the installed model.
PForward ==
    /\ probe # <<>>
    /\ ~probe[Len(probe)].forward.done
    /\ probe' = [probe EXCEPT ![Len(probe)].forward = FirstForward(model)]
    /\ UNCHANGED <<gradVars, srvVars, coreVars>>

InitializeInit ==
    /\ InitsInit
    /\ GradParked
    /\ ServerParked
    /\ tr = TrIdle
    /\ gen = GenIdle
    /\ reply = NoReply
    /\ nUpdates = 0

InitializeNext == PInitialize \/ PForward

SpecInit == InitializeInit /\ [][InitializeNext]_vars

(***************************************************************************)
(* The sampler's functions                                                 *)
(***************************************************************************)
\* The softmax weights of the call's logits at its temperature.
ProbeSoft ==
    LET raw == RawLogits(probe.logits, probe.opts.Temperature)
    IN  [i \in 1..Len(raw) |-> ExpW(raw[i] - MaxSeq(raw))]

NonZero(w) == {i \in 1..Len(w) : w[i] > 0}

IsControl(i) == i = probe.bos + 1

\* w is the softmax restricted to some entries, none of them the suppressed
\* control token, in the same proportions.
Renormalised(w, soft) ==
    /\ NonZero(w) # {}
    /\ \A i \in NonZero(w) : soft[i] > 0 /\ ~(probe.suppressEnd /\ IsControl(i))
    /\ \A i, j \in NonZero(w) : w[i] * soft[j] = w[j] * soft[i]

\* w is uniform, over all tokens or, under suppressEnd with more than one
\* token, over all but the control token.
UniformVector(w) ==
    /\ \A i, j \in NonZero(w) : w[i] = w[j]
    /\ \A i \in 1..Len(w) :
         w[i] = 0 => (probe.suppressEnd /\ IsControl(i) /\ Len(w) > 1)

\* C11: for every logit vector, temperature, top-k and suppressEnd,
\* toProbVector returns one entry per logit, every entry non-negative, the
\* entries summing to 1 (the weights to their denominator), the vector being
\* the renormalised filtered softmax or the uniform fallback.
C11_ValidProbVector ==
    probe.fn = "toProbVector" =>
       /\ Len(probe.probs.w) = Len(probe.logits)
       /\ \A i \in 1..Len(probe.probs.w) : probe.probs.w[i] >= 0
       /\ probe.probs.den > 0
       /\ SumSeq(probe.probs.w) = probe.probs.den
       /\ Renormalised(probe.probs.w, ProbeSoft) \/ UniformVector(probe.probs.w)

\* Top-k 1 kept the control token alone and suppressEnd removed it: the
\* fallback is uniform over the two other tokens.
C11_Witness ==
    /\ probe.fn = "toProbVector"
    /\ Len(probe.logits) = 3
    /\ probe.opts.TopK = 1
    /\ probe.suppressEnd
    /\ probe.logits[3] > probe.logits[1]
    /\ probe.probs = [w |-> <<1, 1, 0>>, den |-> 2]

\* Top-k or suppression removed part of the mass, the rest was renormalised.
C11_WitnessFiltered ==
    /\ probe.fn = "toProbVector"
    /\ Len(probe.logits) = 3
    /\ probe.opts.TopK = 2
    /\ Cardinality(NonZero(ProbeSoft)) = 3
    /\ Cardinality(NonZero(probe.probs.w)) = 2
    /\ ~UniformVector(probe.probs.w)

\* At most k entries are non-zero and each of them is among the k highest:
\* fewer than k entries have a higher probability.
AmongTopK(w, soft, k) ==
    /\ Cardinality(NonZero(w)) <= k
    /\ \A i \in NonZero(w) : Cardinality({j \in 1..Len(soft) : soft[j] > soft[i]}) < k

\* C12 as stated: when top-k = k > 0, for every logit vector and every
\* suppressEnd the returned vector has at most k non-zero entries, each one
\* of the k highest-probability tokens.
C12_TopKAlways ==
    (probe.fn = "toProbVector" /\ probe.opts.TopK > 0) =>
       AmongTopK(probe.probs.w, ProbeSoft, probe.opts.TopK)

\* Some token the filter kept (the first k in the sorted order, or all when
\* k is the vocabulary size) has mass left after suppression.
KeptMass ==
    \E r \in 1..MinOf(probe.opts.TopK, Len(probe.logits)) :
       /\ ProbeSoft[probe.ord[r]] > 0
       /\ ~(probe.suppressEnd /\ IsControl(probe.ord[r]))

\* C12, amended: when top-k = k > 0 and a kept token has mass left after
\* suppression, the returned vector has at most k non-zero entries, each one
\* of the k highest-probability tokens; when none has, the vector is the
\* uniform fallback, whatever k is.
C12_TopKUnlessFallback ==
    (probe.fn = "toProbVector" /\ probe.opts.TopK > 0) =>
       IF KeptMass
       THEN AmongTopK(probe.probs.w, ProbeSoft, probe.opts.TopK)
       ELSE UniformVector(probe.probs.w)

\* Three tokens with mass, top-k 2: two are left.
C12_Witness ==
    /\ probe.fn = "toProbVector"
    /\ probe.opts.TopK = 2
    /\ Cardinality(NonZero(ProbeSoft)) = 3
    /\ KeptMass
    /\ Cardinality(NonZero(probe.probs.w)) = 2

\* The sum of the first k entries.
Cum(w, k) == SumSeq(SubSeq(w, 1, k))

SampleCalled == probe.fn = "sampleFromProbVector"

\* The draw is below the total: some index's cumulative sum exceeds it.
DrawBelowTotal == probe.u < SumSeq(probe.probs.w)

\* C13: on a vector summing to 1 with a draw in [0,1), sampleFromProbVector
\* returns the first index whose cumulative sum exceeds the draw, with
\* cumBefore <= u < cumAfter and chosenProb = cumAfter - cumBefore, never an
\* index of probability 0 (index 1 for [0,1,0]); it returns the fallback
\* token, with chosenProb 0, exactly when no index's cumulative sum exceeds
\* the draw.
C13_FirstIndexAbove ==
    SampleCalled =>
       LET w == probe.probs.w
           r == probe.res
       IN  /\ DrawBelowTotal =>
                /\ r.chosen + 1 \in 1..Len(w)
                /\ Cum(w, r.chosen + 1) > probe.u
                /\ \A k \in 1..r.chosen : Cum(w, k) <= probe.u
                /\ r.cumBefore <= probe.u
                /\ probe.u < r.cumAfter
                /\ r.chosenProb = r.cumAfter - r.cumBefore
                /\ r.chosenProb = w[r.chosen + 1]
                /\ w[r.chosen + 1] > 0
           /\ ~DrawBelowTotal =>
                /\ r.chosen = probe.fallback
                /\ r.chosenProb = 0
                /\ r.cumAfter = SumSeq(w)
           /\ w = <<0, 1, 0>> => r.chosen = 1

C13_Witness ==
    /\ SampleCalled
    /\ probe.probs.w = <<0, 1, 0>>
    /\ probe.fallback = 0
    /\ probe.res.chosen = 1

\* The draw skipped an entry of probability 0 and an entry with mass.
C13_WitnessSkips ==
    /\ SampleCalled
    /\ probe.probs.w = <<1, 0, 2>>
    /\ probe.u = 1
    /\ probe.res.chosen = 2
    /\ probe.res.cumBefore = 1

(***************************************************************************)
(* The server's requests                                                   *)
(***************************************************************************)
\* The request is inside TrainBatchedSteps, GenerateSample or
\* GenerateSampleWithTrace.
InComputation(r) == reqs[r].kind \in Calls /\ reqs[r].pc = "computing"

\* C1 as stated: under any interleaving of init, train, generate and
\* generate_trace requests, at most one request is inside its computation at
\* any time.
C1_OneComputationAtATime ==
    \A r, q \in ReqIds : (r # q /\ InComputation(r)) => ~InComputation(q)

\* C1, amended: at most one request is inside its computation on any one
\* Model at any time; two requests can be inside their computations together
\* only on different models, one of them replaced by an init meanwhile.
C1_OneComputationPerModel ==
    \A r, q \in ReqIds :
       (r # q /\ InComputation(r) /\ InComputation(q)) =>
          /\ reqs[r].model # reqs[q].model
          /\ reqs[r].model \in discarded \/ reqs[q].model \in discarded

\* A train request computes while a generate request on the same model
\* waits for the model's mutex.
C1_Witness ==
    \E r, q \in ReqIds :
       /\ reqs[r].kind = "train"
       /\ InComputation(r)
       /\ reqs[q].kind = "generate"
       /\ reqs[q].pc = "lock"
       /\ reqs[q].model = reqs[r].model

\* Two requests compute together (on different models).
C1_WitnessTwoModels ==
    \E r, q \in ReqIds :
       /\ reqs[r].kind = "train"
       /\ InComputation(r)
       /\ reqs[q].kind = "generate"
       /\ InComputation(q)

AllZero(x) == \A i \in 1..Len(x) : x[i] = 0

FreshModel(o) ==
    /\ o.m.Steps = 0
    /\ Len(o.m.AdamM) = Len(o.m.Params)
    /\ Len(o.m.AdamV) = Len(o.m.Params)
    /\ AllZero(o.m.AdamM)
    /\ AllZero(o.m.AdamV)

\* The request has taken its snapshot of the server's model.
HasSnapshot(r) ==
    reqs[r].kind \in Calls /\ reqs[r].pc \in {"check", "lock", "locked", "computing", "unlock", "done"}

OperatesOnInstalled ==
    /\ srv.model \notin discarded
    /\ \A i \in 1..Len(objs) : objs[i].updates = 0 => FreshModel(objs[i])
    /\ \A r \in ReqIds :
         HasSnapshot(r) =>
           /\ reqs[r].model \notin reqs[r].gone
           /\ reqs[r].current # Nil => reqs[r].model # Nil

InstallsFresh ==
    srv'.model # srv.model =>
       /\ srv'.model \in 1..Len(objs)
       /\ objs[srv'.model].updates = 0
       /\ FreshModel(objs[srv'.model])
       /\ srv'.model \notin discarded'
       /\ srv.model # Nil => srv.model \in discarded'

\* C2: an init replaces the server's model by a newly built one, whose step
\* counter and Adam moments are all 0 whatever was done to the model before
\* it; a train, generate or generate_trace request never operates on a model
\* that had been replaced when the request started, and operates on a model
\* if one was installed when it started.
C2_InitInstallsFreshModel == []OperatesOnInstalled /\ [][InstallsFresh]_vars

\* A request that started after the second init replaced a trained model has
\* run on the second model.
C2_Witness ==
    \E r \in ReqIds :
       /\ reqs[r].kind \in Calls
       /\ reqs[r].pc = "done"
       /\ reqs[r].status = 200
       /\ reqs[r].gone # {}
       /\ reqs[r].model = srv.model
       /\ \E i \in reqs[r].gone : objs[i].m.Steps > 0
       /\ FreshModel(objs[srv.model])

\* The snapshot gives no model, or gives a train request no documents.
Unusable(r) ==
    \/ reqs[r].model = Nil
    \/ reqs[r].kind = "train" /\ reqs[r].docs = <<>>

RefusedEarly ==
    \A r \in ReqIds :
       /\ (HasSnapshot(r) /\ reqs[r].pc \notin {"check", "done"}) => ~Unusable(r)
       /\ (HasSnapshot(r) /\ reqs[r].pc = "done" /\ Unusable(r)) =>
             /\ reqs[r].status = 400
             /\ reqs[r].err = (IF reqs[r].model = Nil THEN ErrNoModel ELSE ErrNoDocs)
             /\ reqs[r].resp = EmptyResp
       /\ Free(r) =>
             /\ r \notin srv.mu.r
             /\ srv.mu.w # r
             /\ \A i \in 1..Len(objs) : objs[i].mu # r

\* The steps of a request that is refused change no model and not the
\* server's model or documents.
RefusalChangesNothing ==
    \A r \in ReqIds :
       (reqs[r].kind \in Calls /\ reqs[r].pc \in {"start", "snapshot", "check"}
          /\ reqs'[r] # reqs[r]) =>
             /\ objs' = objs
             /\ srv'.model = srv.model
             /\ srv'.docs = srv.docs
             /\ reqs'[r].pc = "done" => srv' = srv

\* C3: a train request that finds no model, or no documents, is answered with
\* an error and has changed nothing: no parameter, gradient, Adam moment or
\* step counter, and it holds no lock; generate and generate_trace requests
\* that find no model are answered with an error as well.
C3_RefusedWithoutEffect == []RefusedEarly /\ [][RefusalChangesNothing]_vars

\* A train request was refused for lack of documents, on an installed model.
C3_Witness ==
    \E r \in ReqIds :
       /\ reqs[r].kind = "train"
       /\ reqs[r].pc = "done"
       /\ reqs[r].err = ErrNoDocs
       /\ reqs[r].model # Nil

C3_WitnessNoModel ==
    \E r, q \in ReqIds :
       /\ reqs[r].kind = "train"
       /\ reqs[r].pc = "done"
       /\ reqs[r].err = ErrNoModel
       /\ reqs[q].kind \in {"generate", "generate_trace"}
       /\ reqs[q].pc = "done"
       /\ reqs[q].err = ErrNoModel

(***************************************************************************)
(* Generation calls                                                        *)
(***************************************************************************)
GenReturned == reply.op \in {"generate", "generate_trace"} /\ reply.status = 200

\* The loop variables of the running call, or of the call that returned.
GenLocals == {gen} \cup (IF GenReturned THEN {reply.g} ELSE {})

OverVocabulary(text) ==
    \A i \in 1..Len(text) : text[i] \in SeqToSet(model.Chars) /\ text[i] # EndLabel

WithinBlock ==
    /\ \A g \in GenLocals :
         /\ g.nForward <= model.Config.BlockSize
         /\ Len(g.sample) <= model.Config.BlockSize
         /\ OverVocabulary(g.sample)
         /\ g.pc # "panic"
    /\ GenReturned =>
         /\ reply.text = reply.g.sample
         /\ Len(reply.text) <= model.Config.BlockSize
         /\ OverVocabulary(reply.text)

RunningCallAdvances ==
    /\ gen.pc = "loop" =>
          \/ gen'.pc = "idle" /\ reply'.status = 200
          \/ gen'.pc \in {"loop", "ret"} /\ gen'.nForward = gen.nForward + 1
    /\ gen.pc = "ret" => gen'.pc = "idle" /\ reply'.status = 200

C4_WitnessEmpty ==
    /\ GenReturned
    /\ model.Config.BlockSize = 3
    /\ reply.g.nForward = 1
    /\ reply.text = <<>>

\* The control token was never sampled while the output had fewer than
\* MinLen characters (before step i the output has i - 1 characters).
NoEarlyEnd(g) ==
    \A i \in 1..Len(g.sampled) : g.sampled[i] = model.BOS => i - 1 >= g.opts.MinLen

LongEnough(g) == Len(g.sample) >= MinOf(g.opts.MinLen, model.Config.BlockSize)

LastSampledIsEnd(g) == g.sampled # <<>> /\ g.sampled[Len(g.sampled)] = model.BOS

StopsAsSpecified(g) ==
    /\ \A i \in 1..(Len(g.sampled) - 1) : g.sampled[i] # model.BOS
    /\ IF LastSampledIsEnd(g)
       THEN /\ g.pc = "ret"
            /\ Len(g.sample) = Len(g.sampled) - 1
            /\ g.trace => g.stopReason = StopEnd
       ELSE /\ g.pc \in {"idle", "loop"}
            /\ Len(g.sample) = Len(g.sampled)
            /\ g.trace => g.stopReason = StopLimit
    /\ \A i \in 1..Len(g.sample) : g.sample[i] = model.Chars[g.sampled[i] + 1]
    /\ g.nForward = Len(g.sampled)

\* C6: sampling the control token stops the loop before anything is
\* appended, and the trace variant reports the control-token reason; any
\* other token's character is appended and the loop goes on; the length
\* limit is reported exactly when BlockSize tokens were sampled and none was
\* the control token; no step follows a step that sampled the control token.
C6_LoopStops ==
    /\ \A g \in GenLocals : StopsAsSpecified(g)
    /\ (GenReturned /\ reply.g.trace) =>
          /\ reply.stopReason \in {StopLimit, StopEnd}
          /\ reply.stopReason = StopLimit <=>
                /\ Len(reply.g.sampled) = model.Config.BlockSize
                /\ \A i \in 1..Len(reply.g.sampled) : reply.g.sampled[i] # model.BOS

C6_Witness ==
    /\ GenReturned
    /\ reply.g.trace
    /\ reply.stopReason = StopEnd
    /\ Len(reply.g.sampled) = 2
    /\ Len(reply.text) = 1
    /\ model.Config.BlockSize = 3

C6_WitnessLimit ==
    /\ GenReturned
    /\ reply.g.trace
    /\ reply.stopReason = StopLimit
    /\ Len(reply.text) = 3

(***************************************************************************)
(* Training calls                                                          *)
(***************************************************************************)
\* The operations of n iterations of batch size b, in the order performed.
IterationOrder(n, b) ==
    [i \in 1..(n * (b + 3)) |->
        LET j == ((i - 1) % (b + 3)) + 1
        IN  IF j = 1 THEN "zero"
            ELSE IF j <= b + 1 THEN "example"
            ELSE IF j = b + 2 THEN "scale"
            ELSE "update"]

TreatedAsOne(x) == IF x < 1 THEN 1 ELSE x

TrainSucceeded == reply.op = "train" /\ reply.status = 200

AllGradsZero == \A i \in 1..Len(model.Params) : model.Params[i].Grad = ZeroGrad

\* C7: a successful TrainBatchedSteps(stepsPerCall, batchSize) call, values
\* below 1 taken as 1, has performed exactly stepsPerCall iterations, each
\* being: zero the gradients, batchSize times trainOneExample, scale, one
\* Update; the step counter has grown by stepsPerCall and the returned Step
\* is the model's step counter.  Inside a call the gradients are all zero
\* when the first example of an iteration starts.
C7_BatchedStepsOrder ==
    /\ TrainSucceeded =>
          LET n == TreatedAsOne(reply.t.argSteps)
              b == TreatedAsOne(reply.t.argBatch)
          IN  /\ reply.t.phases = IterationOrder(n, b)
              /\ model.Steps = reply.t.steps0 + n
              /\ reply.resp.Step = model.Steps
    /\ (tr.pc = "example" /\ tr.b = 0) => AllGradsZero

C7_Witness ==
    /\ TrainSucceeded
    /\ reply.t.argSteps = 2
    /\ reply.t.argBatch = 2
    /\ Len(reply.t.phases) = 10
    /\ model.Steps = 2

\* TrainBatchedSteps was given values below 1 and succeeded.
C7_WitnessBelowOne ==
    /\ TrainSucceeded
    /\ reply.t.argSteps < 1
    /\ reply.t.argBatch < 1
    /\ reply.t.phases = <<"zero", "example", "scale", "update">>

StepsMove ==
    /\ model'.Steps >= model.Steps
    /\ nUpdates' - nUpdates \in {0, 1}
    /\ model'.Steps = model.Steps + (nUpdates' - nUpdates)
    /\ (tr.pc = "update" /\ tr'.pc # "update") => model'.Steps = model.Steps + 1
    /\ (gen.pc # "idle" \/ gen'.pc # "idle") => model'.Steps = model.Steps
    /\ (reply' # reply /\ reply'.status = 400) =>
          /\ model'.Steps = model.Steps
          /\ tr.pc # "idle" => model'.Steps = tr.steps0

\* C8: the step counter never decreases, grows by exactly 1 per Update, always
\* equals the number of optimizer updates applied to the model, and is left
\* unchanged by generation calls and by training calls that fail.
C8_StepCounter == [](model.Steps = nUpdates) /\ [][StepsMove]_vars

\* A generation call has returned on a model that was updated twice, and a
\* training call has failed.
C8_Witness ==
    /\ model.Steps = 2
    /\ nUpdates = 2
    /\ reply.op \in {"generate", "generate_trace"}
    /\ reply.status = 200

C8_WitnessFailedTrain ==
    /\ reply.op = "train"
    /\ reply.status = 400
    /\ reply.err = ErrEmptySeq
    /\ reply.t.phases = <<"zero">>

(***************************************************************************)
(* Forward passes and their caches                                         *)
(***************************************************************************)
\* The positions 0..t in order.
Upto(t) == [i \in 1..(t + 1) |-> i - 1]

\* What a Forward call for position t must leave: in every layer, keys and
\* values hold the entries of positions 0..t, and attention read exactly those.
CachedThrough(m, f, t) ==
    /\ DOMAIN f.keys = 1..m.Config.NLayer
    /\ DOMAIN f.values = 1..m.Config.NLayer
    /\ \A li \in 1..m.Config.NLayer :
          /\ Len(f.keys[li]) = t + 1
          /\ Len(f.values[li]) = t + 1
          /\ f.keys[li] = Upto(t)
          /\ f.values[li] = Upto(t)
          /\ f.read.keys[li] = 0..t
          /\ f.read.values[li] = 0..t

GenForward(g) == [keys |-> g.keys, values |-> g.values, read |-> g.read]

\* C14: after the Forward call for position t, every layer's key cache and
\* value cache hold t + 1 entries, those of positions 0..t, one added by each
\* call, and the call's attention read exactly the entries 0..t.  A generation
\* call and every training example start from caches that are empty, whatever
\* calls came before.
C14_KVCache ==
    /\ \A g \in GenLocals :
          g.pc # "idle" =>
             IF g.nForward = 0
             THEN g.keys = EmptyCache(model) /\ g.values = EmptyCache(model)
             ELSE CachedThrough(model, GenForward(g), g.nForward - 1)
    /\ \A t \in 1..Len(tr.forwards) : CachedThrough(model, tr.forwards[t], t - 1)

\* A generation call made its second Forward on a model with a layer, after
\* a training call had run its examples.
C14_Witness ==
    /\ model.Config.NLayer >= 1
    /\ gen.nForward = 2
    /\ gen.keys[1] = <<0, 1>>
    /\ nUpdates >= 1

\* The second example of a batch ran two Forward calls.
C14_WitnessTrain ==
    /\ model.Config.NLayer >= 1
    /\ tr.b = 2
    /\ Len(tr.forwards) = 2
    /\ tr.forwards[2].values[1] = <<0, 1>>

(***************************************************************************)
(* Initialisation                                                          *)
(***************************************************************************)
Runes == {"a", "b"}

\* The distinct characters of a document list, read off the documents.
Distinct(ds) == {c \in Runes : \E d \in 1..Len(ds) : \E k \in 1..Len(ds[d]) : ds[d][k] = c}

\* 2*V*E + B*E + 12*L*E*E for the call's documents and configuration.
ClosedForm(ds, config) ==
    LET V == Cardinality(Distinct(ds)) + 1
        E == config.NEmpd
    IN  2 * V * E + config.BlockSize * E + 12 * config.NLayer * E * E

\* The number of cells in the rows from i on of a matrix, and in the
\* matrices from k on of a model.
RECURSIVE RowCells(_, _)
RowCells(mat, i) == IF i > Len(mat) THEN 0 ELSE Len(mat[i]) + RowCells(mat, i + 1)

RECURSIVE MatrixCells(_, _)
MatrixCells(state, k) ==
    IF k > Len(state) THEN 0 ELSE RowCells(state[k].mat, 1) + MatrixCells(state, k + 1)

\* The positions of the flat list that the cells of the matrices hold.
CellValues(m) ==
    UNION {UNION {{m.State[k].mat[i][j] : j \in 1..Len(m.State[k].mat[i])}
                     : i \in 1..Len(m.State[k].mat)}
              : k \in 1..Len(m.State)}

\* C15: the params of the /api/init response is the length of the model's
\* flat parameter list, which is 2*V*E + B*E + 12*L*E*E (248 for the documents
\* "ab", "ba" with E = 4, L = 1, B = 8), and every position of the flat list
\* is the entry of exactly one matrix cell: the cells hold every position, and
\* there are as many cells as positions.
C15_ParamCount ==
    \A n \in 1..Len(probe) :
       LET c == probe[n]
       IN  /\ c.params = Len(c.model.Params)
           /\ c.params = ClosedForm(c.docs, c.config)
           /\ (c.docs = << <<"a", "b">>, <<"b", "a">> >> /\ c.config = Config(4, 2, 1, 8))
                 => c.params = 248
           /\ CellValues(c.model) = 1..Len(c.model.Params)
           /\ MatrixCells(c.model.State, 1) = Len(c.model.Params)

\* The documents "ab", "ba" were installed with E = 4, L = 1, B = 8.
C15_Witness ==
    \E n \in 1..Len(probe) :
       /\ probe[n].docs = << <<"a", "b">>, <<"b", "a">> >>
       /\ probe[n].config = Config(4, 2, 1, 8)
       /\ probe[n].params = 248
       /\ Len(probe[n].model.State) = 9

Ascending(chars) ==
    \A i, j \in 1..Len(chars) : i < j => RuneCode(chars[i]) < RuneCode(chars[j])

\* C16: two /api/init calls with the same documents and configuration give
\* the same parameter count and the same vocabulary, whatever the random
\* initial values; the vocabulary is the distinct characters of the documents
\* in ascending order, so the same for document lists with the same
\* characters in another order or repeated; VocabSize is their number plus 1
\* and the control token's id is their number.
C16_SameStructure ==
    /\ \A n \in 1..Len(probe) :
          LET m == probe[n].model
          IN  /\ {m.Chars[i] : i \in 1..Len(m.Chars)} = Distinct(probe[n].docs)
              /\ Ascending(m.Chars)
              /\ m.VocabSize = Cardinality(Distinct(probe[n].docs)) + 1
              /\ m.BOS = Cardinality(Distinct(probe[n].docs))
    /\ \A n, k \in 1..Len(probe) :
          /\ Distinct(probe[n].docs) = Distinct(probe[k].docs)
                => probe[n].model.Chars = probe[k].model.Chars
          /\ (probe[n].docs = probe[k].docs /\ probe[n].config = probe[k].config)
                => /\ probe[n].params = probe[k].params
                   /\ Len(probe[n].model.Params) = Len(probe[k].model.Params)

\* The same call made twice, with different initial values.
C16_Witness ==
    /\ Len(probe) = 2
    /\ probe[1].docs = probe[2].docs
    /\ probe[1].config = probe[2].config
    /\ Len(probe[1].model.Chars) = 2
    /\ probe[1].model.Params # probe[2].model.Params

\* Two calls whose documents hold the same characters in another order.
C16_WitnessReordered ==
    /\ Len(probe) = 2
    /\ probe[1].docs = << <<"b", "a">>, <<"a", "b">> >>
    /\ probe[2].docs = << <<"b", "a", "b">> >>
    /\ probe[2].model.Chars = <<"a", "b">>

\* C19: the model installed by /api/init has at least one head and an
\* embedding width that its head count divides, and the heads that Forward
\* concatenates in a layer make exactly embedding-width entries.
C19_HeadsDivideWidth ==
    \A n \in 1..Len(probe) :
       LET c == probe[n]
       IN  /\ c.config.NHead >= 1
           /\ c.config.NEmpd % c.config.NHead = 0
           /\ c.forward.done =>
                 /\ c.forward.err = ""
                 /\ \A li \in 1..c.config.NLayer : c.forward.xAttn[li] = c.config.NEmpd

(***************************************************************************)
(* Training requests and examples                                          *)
(***************************************************************************)
\* The body of a /api/train request without a body or without its fields.
AbsentTrainBody == [ok |-> TRUE, StepsPerCall |-> 0, BatchSize |-> 0]

\* C17: a /api/train request without a body, or with the fields omitted, runs
\* with steps_per_call = 1 and batch_size = 6: one iteration over six
\* examples, and the step counter one higher when it returns.
C17_ReadmeDefaults ==
    /\ (tr.pc # "idle" /\ tr.body = AbsentTrainBody) =>
          tr.stepsPerCall = 1 /\ tr.batchSize = 6
    /\ (TrainSucceeded /\ reply.t.body = AbsentTrainBody) =>
          /\ reply.t.phases = IterationOrder(1, 6)
          /\ model.Steps = reply.t.steps0 + 1

\* The usable positions of document number pick: its runes and the two
\* control tokens around them, less one, cut at the block size.
UsablePositions(pick) ==
    LET len == Len(docs[pick]) + 2
    IN  IF len - 1 > model.Config.BlockSize THEN model.Config.BlockSize ELSE len - 1

TrainFailed == reply.op = "train" /\ reply.status = 400 /\ reply.err # ErrNoDocs /\ reply.err # ErrBody

C20_WitnessFailed ==
    /\ TrainFailed
    /\ reply.t.phases = <<"zero">>
    /\ model.Config.BlockSize = 0
    /\ model.Steps = 0

(***************************************************************************)
(* Generation requests                                                     *)
(***************************************************************************)
\* C18: a generation request carrying top_k = 0 is sampled without top-k
\* filtering: every token that has probability in the temperature-scaled
\* distribution, and is not the suppressed control token, has probability in
\* the vector the token is drawn from.
C18_TopKZeroDisabled ==
    (probe.fn = "handleGenerate" /\ probe.body.TopK = 0) =>
       \A i \in 1..Len(probe.logits) :
          (ProbeSoft[i] > 0 /\ ~(probe.suppressEnd /\ IsControl(i)))
             => probe.probs.w[i] > 0

(***************************************************************************)
(* Gradients across iterations and calls                                   *)
(***************************************************************************)
\* C21: every parameter's gradient is 0 after each Update, so between
\* training calls (also while a generation call runs) and when an iteration's
\* batch starts; inside a batch it is the sum of the gradients of the
\* iteration's examples so far, and the gradient Update is called on is that
\* sum over all batchSize examples, divided by batchSize.
C21_GradientsPerIteration ==
    /\ tr.pc \in {"idle", "zero"} => AllGradsZero
    /\ (tr.pc = "example" /\ tr.b = 0) => AllGradsZero
    /\ tr.pc = "example" =>
          \A i \in 1..Len(model.Params) :
             model.Params[i].Grad = [n |-> tr.acc[i], d |-> 1]
    /\ tr.pc = "update" =>
          /\ tr.b = tr.batchSize
          /\ \A i \in 1..Len(model.Params) :
                /\ model.Params[i].Grad.d > 0
                /\ model.Params[i].Grad.n * tr.batchSize
                      = tr.acc[i] * model.Params[i].Grad.d

\* The second iteration of a call is about to update, with a gradient that
\* is not 0, on a batch of two examples.
C21_Witness ==
    /\ tr.pc = "update"
    /\ tr.step = 1
    /\ tr.batchSize = 2
    /\ \E i \in 1..Len(model.Params) : tr.acc[i] # 0

\* A generation call runs after a training call that updated.
C21_WitnessGeneration ==
    /\ gen.pc = "loop"
    /\ gen.nForward >= 1
    /\ nUpdates >= 1
    /\ Len(model.Params) > 0

(***************************************************************************)
(* Encoding documents                                                      *)
(***************************************************************************)
Encoded == probe.fn = "encodeDoc"

InVocabulary(c) == \E i \in 1..Len(probe.chars) : probe.chars[i] = c

\* tokens is the control token, one vocabulary index per character of doc,
\* the control token; ids mapped back to characters give doc.
WrapsEveryCharacter(doc, tokens) ==
    /\ Len(tokens) = Len(doc) + 2
    /\ tokens[1] = probe.bos
    /\ tokens[Len(tokens)] = probe.bos
    /\ \A i \in 1..Len(doc) :
          /\ tokens[i + 1] \in 0..(Len(probe.chars) - 1)
          /\ probe.chars[tokens[i + 1] + 1] = doc[i]

\* C22 as stated: for every document, the encoding has the document's length
\* plus 2, starts and ends with the control token, and element i + 1 is the
\* vocabulary index of character i.
C22_EncodeEveryDocument ==
    Encoded => WrapsEveryCharacter(probe.doc, probe.tokens)

\* The characters of doc that are in the vocabulary, in order.
KnownCharacters(doc) == SelectSeq(doc, InVocabulary)

\* C22: for a document whose characters are all in the vocabulary, the
\* encoding has the document's length plus 2, starts and ends with the
\* control token, and element i + 1 is the vocabulary index of character i,
\* so dropping both control tokens and mapping ids back gives the document;
\* for any document, the encoding is that of the document with the
\* characters outside the vocabulary left out.
C22_EncodeKnownCharacters ==
    Encoded =>
       /\ (\A i \in 1..Len(probe.doc) : InVocabulary(probe.doc[i]))
             => WrapsEveryCharacter(probe.doc, probe.tokens)
       /\ WrapsEveryCharacter(KnownCharacters(probe.doc), probe.tokens)

\* A document of three characters encoded with a vocabulary of two.
C22_Witness ==
    /\ Encoded
    /\ probe.chars = <<"a", "b">>
    /\ probe.doc = <<"b", "a", "b">>
    /\ probe.tokens = <<2, 1, 0, 1, 2>>

\* A document with a character that is not in the vocabulary.
C22_WitnessSkipped ==
    /\ Encoded
    /\ probe.chars = <<"b">>
    /\ probe.doc = <<"a", "b">>
    /\ probe.tokens = <<1, 0, 1>>

(***************************************************************************)
(* Trace steps                                                             *)
(***************************************************************************)
TraceStepMade == probe.fn = "traceStep"

ChosenListed == \E rank \in 1..Len(probe.topK) : probe.topK[rank].TokenID = probe.res.chosen

\* C23 as stated: in every step of a trace, chosenRank lies between 1 and the
\* length of the step's candidate list, and the candidate at that position is
\* the chosen token.
C23_RankAmongCandidates ==
    TraceStepMade =>
       /\ probe.chosenRank \in 1..Len(probe.topK)
       /\ probe.topK[probe.chosenRank].TokenID = probe.res.chosen

\* C23: the candidate list holds the five most probable tokens (all tokens
\* when there are fewer), in descending order of probability; when the chosen
\* token is in the list, chosenRank is its position there, from 1; when it is
\* not, chosenRank is the vocabulary size.
C23_RankOrVocabularySize ==
    TraceStepMade =>
       /\ Len(probe.topK) = MinOf(TraceCandidates, Len(probe.probs.w))
       /\ \A r \in 1..(Len(probe.topK) - 1) : probe.topK[r].Prob >= probe.topK[r + 1].Prob
       /\ \A r \in 1..Len(probe.topK) :
             probe.topK[r].Prob = probe.probs.w[probe.topK[r].TokenID + 1]
       /\ IF ChosenListed
          THEN /\ probe.chosenRank \in 1..Len(probe.topK)
               /\ probe.topK[probe.chosenRank].TokenID = probe.res.chosen
          ELSE probe.chosenRank = Len(probe.probs.w)

\* The chosen token is the third candidate.
C23_Witness ==
    /\ TraceStepMade
    /\ probe.chosenRank = 3
    /\ probe.topK[3].TokenID = probe.res.chosen
    /\ probe.res.chosenProb > 0

\* The chosen token has probability but is not among the five candidates.
C23_WitnessUnlisted ==
    /\ TraceStepMade
    /\ ~ChosenListed
    /\ probe.res.chosenProb > 0
    /\ probe.chosenRank = 6
    /\ Len(probe.topK) = 5

(***************************************************************************)
(* Locks                                                                   *)
(***************************************************************************)
\* The request is between model.mu.Lock() and the deferred Unlock().
UnderModelLock(r) ==
    reqs[r].kind \in Calls /\ reqs[r].pc \in {"locked", "computing", "unlock"}

\* The requests holding the mutex of model i.
Holders(i) == {r \in ReqIds : UnderModelLock(r) /\ reqs[r].model = i}

\* A step that changes model i is taken by the request that holds its mutex
\* and is inside its computation on that model.
WritesUnderLock ==
    \A i \in 1..Len(objs) :
       objs'[i].m # objs[i].m =>
          /\ objs[i].mu \in ReqIds
          /\ InComputation(objs[i].mu)
          /\ reqs[objs[i].mu].model = i

\* C24: for every model, at most one request is between Lock and Unlock of
\* its mutex, and the mutex records that request; a train, generate or
\* generate_trace request is inside its computation, where alone it reads
\* and writes the model, only while it holds the mutex of the model it
\* computes on; and no step changes a model other than a step of the
\* request holding its mutex.  This holds while init requests build and
\* install other models.
C24_ModelAccessUnderLock ==
    /\ [](\A i \in 1..Len(objs) :
            /\ Cardinality(Holders(i)) <= 1
            /\ Holders(i) = (IF objs[i].mu = 0 THEN {} ELSE {objs[i].mu}))
    /\ [](\A r \in ReqIds : InComputation(r) => objs[reqs[r].model].mu = r)
    /\ [][WritesUnderLock]_vars

\* A train request computes on the first model under its mutex while an init
\* request, having replaced that model, still holds the server's lock, and
\* the second model's mutex is free.
C24_Witness ==
    \E r, q \in ReqIds :
       /\ reqs[r].kind = "train"
       /\ InComputation(r)
       /\ reqs[r].model = 1
       /\ objs[1].mu = r
       /\ At(q, {"init"}, "assignDocs")
       /\ srv.model = 2
       /\ objs[2].mu = 0

(***************************************************************************)
(* The model and its documents                                             *)
(***************************************************************************)
\* encodeDoc keeps every character of every document for this model.
NoCharacterDropped(m, ds) ==
    \A k \in 1..Len(ds) : Len(encodeDoc(ds[k], m.Chars, m.BOS)) = Len(ds[k]) + 2

\* C25: the model and the documents a request's snapshot returned are the
\* pair one init request installed: the documents are those the model's
\* vocabulary was built from (none when there is no model), so that in a
\* training computation encodeDoc keeps every character of every document;
\* and outside setModel the server's own pair is such a pair.
C25_ModelAndDocsOnePair ==
    /\ \A r \in ReqIds :
          HasSnapshot(r) =>
             /\ reqs[r].model = Nil => reqs[r].docs = <<>>
             /\ reqs[r].model # Nil => reqs[r].docs = objs[reqs[r].model].builtFrom
             /\ (reqs[r].kind = "train" /\ reqs[r].pc = "computing") =>
                   NoCharacterDropped(objs[reqs[r].model].m, reqs[r].docs)
    /\ (srv.mu.w = 0 /\ srv.model # Nil) => srv.docs = objs[srv.model].builtFrom

\* A train request computes on the first model with that model's document
\* after an init request has installed a second model with no documents.
C25_Witness ==
    \E r \in ReqIds :
       /\ reqs[r].kind = "train"
       /\ reqs[r].pc = "computing"
       /\ reqs[r].model = 1
       /\ reqs[r].docs = << <<"a">> >>
       /\ srv.model = 2
       /\ srv.docs = <<>>
       /\ srv.mu.w = 0

\* A generate request took its snapshot while no init request was in
\* setModel, after a model without documents replaced one with a document.
C25_WitnessSecondPair ==
    \E r \in ReqIds :
       /\ reqs[r].kind = "generate"
       /\ HasSnapshot(r)
       /\ reqs[r].model = 2
       /\ reqs[r].docs = <<>>
       /\ objs[1].builtFrom = << <<"a">> >>

(***************************************************************************)
(* Locks on every return path                                              *)
(***************************************************************************)
\* The request holds the server's lock, as writer (or as the writer waiting
\* for the readers to leave) or as reader.
HoldsServerLock(r) == srv.mu.w = r \/ r \in srv.mu.r

\* The requests holding the lock request r waits for, if it waits for one.
Blockers(r) ==
    IF At(r, Calls, "lock") THEN {objs[reqs[r].model].mu} \ {0}
    ELSE IF At(r, {"init"}, "setModel") THEN {srv.mu.w} \ {0}
    ELSE IF At(r, {"init"}, "drain") THEN srv.mu.r
    ELSE IF At(r, Calls, "start") THEN {srv.mu.w} \ {0}
    ELSE {}

\* A request that has returned holds no lock.
ReturnedWithoutLocks ==
    \A r \in ReqIds :
       Free(r) => /\ ~HoldsServerLock(r)
                  /\ \A i \in 1..Len(objs) : objs[i].mu # r

\* A request waiting for a model's mutex holds no lock of the server, and
\* a request holding a model's mutex never waits for the server's lock.
NoLockWhileWaiting ==
    \A r \in ReqIds :
       /\ At(r, Calls, "lock") => ~HoldsServerLock(r)
       /\ HoldsServerLock(r) => \A i \in 1..Len(objs) : objs[i].mu # r

\* A request in flight can take a step, or waits for a lock whose holder
\* can take a step.
\* The request is at a Lock or RLock call.
WaitsForLock(r) ==
    \/ At(r, Calls, "lock")
    \/ At(r, Calls, "start")
    \/ At(r, {"init"}, "setModel")
    \/ At(r, {"init"}, "drain")

\* The requests r waits for, those they wait for, and so on, r included.
RECURSIVE WaitsOn(_, _)
WaitsOn(S, k) ==
    IF k = 0 THEN S ELSE WaitsOn(S \cup UNION {Blockers(q) : q \in S}, k - 1)

\* A request at a Lock or RLock call can take the lock, or among the
\* requests it waits on, directly or through others, one is in flight and
\* at no Lock or RLock call, or can take the lock it waits for.
NoRequestStuck ==
    \A r \in ReqIds :
       WaitsForLock(r) =>
          \E q \in WaitsOn({r}, MaxReqs) :
             /\ ~Free(q)
             /\ WaitsForLock(q) =>
                   ENABLED (ModelLock(q) \/ SetModelLock(q) \/ SetModelDrained(q)
                               \/ SnapshotRLock(q))

\* With fair locks, every request in flight returns.
EveryRequestReturns == \A r \in ReqIds : (~Free(r)) ~> Free(r)

C26_WitnessWaiting ==
    \E r, q \in ReqIds :
       /\ At(r, Calls, "lock")
       /\ InComputation(q)
       /\ reqs[q].model = reqs[r].model
       /\ ~ENABLED ModelLock(r)

(***************************************************************************)
(* Generation leaves the model alone                                       *)
(***************************************************************************)
\* A generate or generate_trace call starts, runs or returns in this step.
GenerationStep == gen.pc # "idle" \/ gen'.pc # "idle"

\* C27: no step of a generate or generate_trace call, from its start to its
\* return, changes the model: parameter values, gradients, Adam moments,
\* step counter, vocabulary and configuration stay as they were, and so do
\* the documents.
C27_GenerationReadOnly == [][GenerationStep => (model' = model /\ docs' = docs)]_vars

\* A generation call has returned a text of at least one character from a
\* model that training had updated.
C27_Witness ==
    /\ reply.op \in {"generate", "generate_trace"}
    /\ reply.status = 200
    /\ Len(reply.text) >= 1
    /\ reply.g.nForward >= 2
    /\ nUpdates >= 1
    /\ model.Steps >= 1

(***************************************************************************)
(* Arguments of Forward                                                    *)
(***************************************************************************)
\* The token id indexes a row of wte and the position a row of wpe.
ArgsInRange(m, tokenID, posID) ==
    /\ tokenID \in 0..(m.VocabSize - 1)
    /\ posID \in 0..(m.Config.BlockSize - 1)

\* Every Forward call of trainOneExample on this document has its arguments
\* in range, and its target tokens[pos+1] is an element of the encoded
\* sequence.
ExampleInRange(m, doc) ==
    LET tokens == encodeDoc(doc, m.Chars, m.BOS)
        n      == MinOf(Len(tokens) - 1, m.Config.BlockSize)
    IN  \A pos \in 0..(n - 1) :
           /\ ArgsInRange(m, tokens[pos + 1], pos)
           /\ pos + 1 \in 0..(Len(tokens) - 1)

\* C28: for the model and documents of any init, every Forward call of a
\* training example gets a token id in 0..VocabSize-1 and a position in
\* 0..BlockSize-1 and its target index is inside the encoded sequence, for
\* whichever document is picked; every Forward call of a generate or
\* generate_trace loop gets such a token id and position; and no call of
\* either kind ends in an index panic.
C28_ForwardArgsInRange ==
    /\ \A pick \in 1..Len(docs) : ExampleInRange(model, docs[pick])
    /\ Len(tr.forwards) <= model.Config.BlockSize
    /\ (gen.pc = "loop" /\ LoopRuns(gen.pos, model.Config.BlockSize)) =>
          ArgsInRange(model, gen.tokenID, gen.pos)
    /\ gen.pc # "panic"
    /\ reply.err # "panic"

\* A training example has run on a document whose encoding is longer than
\* the block size: Forward was called at every position of the block.
C28_Witness ==
    /\ tr.pc = "example"
    /\ tr.b >= 1
    /\ tr.pick # 0
    /\ Len(docs[tr.pick]) + 1 > model.Config.BlockSize
    /\ Len(tr.forwards) = model.Config.BlockSize
    /\ model.Config.BlockSize >= 2

\* A generation loop is about to call Forward at the last position of the
\* block with a sampled character.
C28_WitnessGeneration ==
    /\ gen.pc = "loop"
    /\ gen.pos = model.Config.BlockSize - 1
    /\ gen.pos >= 1
    /\ gen.tokenID # model.BOS

(***************************************************************************)
(* Trace results                                                           *)
(***************************************************************************)
\* A generate_trace call has returned its result.
TraceReturned == reply.op = "generate_trace" /\ reply.status = 200

\* C29: in every result of generate_trace, step number i (from 0) has
\* position i and as context the first i characters of the returned text;
\* there are as many steps as characters plus one when the stop reason is
\* the control token, and as many as characters, which is the block size,
\* when it is the limit; and no step but the last has the control token as
\* its chosen token.
C29_TraceStepsMatchText ==
    TraceReturned =>
       LET steps == reply.g.steps
           text  == reply.text
       IN  /\ \A i \in 1..Len(steps) :
                 /\ steps[i].Position = i - 1
                 /\ steps[i].Context = SubSeq(text, 1, i - 1)
           /\ reply.stopReason \in {StopEnd, StopLimit}
           /\ reply.stopReason = StopEnd => Len(steps) = Len(text) + 1
           /\ reply.stopReason = StopLimit =>
                 Len(steps) = Len(text) /\ Len(text) = model.Config.BlockSize
           /\ \A i \in 1..(Len(steps) - 1) : steps[i].ChosenChar # EndLabel

\* A trace of two characters ended by the control token: three steps.
C29_Witness ==
    /\ TraceReturned
    /\ reply.stopReason = StopEnd
    /\ Len(reply.text) = 2
    /\ Len(reply.g.steps) = 3
    /\ reply.g.steps[3].ChosenChar = EndLabel

\* A trace that filled the block: as many steps as characters.
C29_WitnessLimit ==
    /\ TraceReturned
    /\ reply.stopReason = StopLimit
    /\ Len(reply.text) >= 2
    /\ Len(reply.g.steps) = Len(reply.text)

(***************************************************************************)
(* generate and generate_trace are one sampler                             *)
(***************************************************************************)
\* The locals GenerateSample shares with GenerateSampleWithTrace: what the
\* trace keeps besides (steps, stopReason) is left out.
Plain(g) == [g EXCEPT !.trace = FALSE, !.stopReason = "", !.steps = <<>>]

\* The two functions start their loops from the same locals.
SameStart ==
    \A body \in GenBodies :
       body.ok =>
          Plain(GenBegin(model, HandlerOpts(body), TRUE))
             = GenBegin(model, HandlerOpts(body), FALSE)

\* From the same locals, on the same logits, tie order of the top-k sort and
\* draw, an iteration of either loop feeds Forward the same token at the
\* same position, samples the same token, stops or goes on alike and leaves
\* the same text.
SameIteration ==
    (gen.pc = "loop" /\ gen.trace /\ LoopRuns(gen.pos, model.Config.BlockSize)) =>
       \A logits \in LogitVecs(model.VocabSize) :
          \A ord \in OrdersFor(model, gen.opts, logits) :
             \A u \in Draws(toProbVector(logits, gen.opts, model.BOS,
                                         Len(gen.sample) < gen.opts.MinLen, ord).probs) :
                Plain(GenerateSampleWithTraceStep(model, gen, logits, ord, u))
                   = GenerateSampleStep(model, Plain(gen), logits, ord, u)

\* C30: GenerateSample and GenerateSampleWithTrace are the same sampler: on
\* the same model and options they start from the same locals, and with the
\* same logits and random draws every iteration feeds Forward the same token
\* at the same position, samples the same token, stops at the same step and
\* builds the same text; the trace only adds its steps and stop reason.
C30_TraceRefinesGenerate == SameStart /\ SameIteration

\* A trace loop that has sampled a character, with MinLen not yet reached and
\* a top-k filter on, is about to run another iteration.
C30_Witness ==
    /\ gen.pc = "loop"
    /\ gen.trace
    /\ gen.pos >= 1
    /\ LoopRuns(gen.pos, model.Config.BlockSize)
    /\ Len(gen.sample) < gen.opts.MinLen
    /\ TopKApplies(gen.opts, model.VocabSize)
    /\ Len(gen.steps) = gen.pos

====
